---- MODULE Spec2Model ----
(***************************************************************************)
(* The file intake pipeline of the JSON processor: JSONFileHandler         *)
(* (handlers/file_handler.py), the file utilities it calls                 *)
(* (utils/file_operations.py) and the startup sequence of                  *)
(* run_file_processor (main.py).                                           *)
(*                                                                         *)
(* Two threads call process_file: the observer thread ("watch"), which     *)
(* dispatches created events to on_created, and the main thread ("main"),  *)
(* which runs process_existing_files after observer.start().  One step of  *)
(* the model is one statement of the code that reads or writes shared      *)
(* state (the tracker set or a folder); every I/O statement has the        *)
(* outcomes the operating system can give it.                              *)
(*                                                                         *)
(* File names: generate_unique_filename and move_file draw 8 hex digits of *)
(* a uuid4; the model draws a name no file and no running invocation uses. *)
(*                                                                         *)
(* Spec is the program on files whose names are UTF-8; SpecRawName is the  *)
(* program on a file whose name is not, for which building the error       *)
(* e-mail raises.  SpecRun is run_file_processor from its startup checks   *)
(* to its return.  The other specifications take one function on its own:  *)
(* SpecRecovery (cleanup_processing_folder), SpecSchema (_validate_data),  *)
(* SpecSanitize (sanitize_data_for_logging), SpecAccess                    *)
(* (wait_for_file_access), SpecMove (move_file), SpecRetry                 *)
(* (retry_decorator) and SpecInvocation (one process_file, loop by loop).  *)
(***************************************************************************)
EXTENDS Integers, Sequences, FiniteSets, TLC

\* ---------------------------------------------------------------- bounds
\* created events the watch source delivers in one behaviour
MaxEvents == 1
\* process deaths followed by a restart of run_file_processor
MaxCrashes == 1
\* size of the pool of file names
NumNames == 4
\* operating-system and collaborator calls that fail in one behaviour
MaxFaults == 3

\* ----------------------------------------------------- program constants
FILE_MOVE_MAX_ATTEMPTS == 3

\* -------------------------------------------------------------- universe
\* absolute paths of the *.json files dropped into DATA_FOLDER; the threads
\* contend for one file
Paths == {"a.json"}
\* a path whose file name holds bytes that are not UTF-8: os.listdir and the
\* watch source hand it over as a str with lone surrogates (surrogateescape)
RawNamePaths == {"raw.json"}
AllPaths == Paths \cup RawNamePaths
\* the file name of path p can be encoded as UTF-8
Encodes(p) == p \notin RawNamePaths
\* the threads that call process_file
Threads == {"main", "watch"}
\* what a dropped file holds: a record the schema accepts, text that is not
\* JSON, a JSON object the schema rejects, JSON that is not an object
Kinds == {"valid", "malformed", "invalid", "nonobject"}
Names == 1 .. NumNames

\* no argument, no result: no function is under study
NoValue == "none"

\* a file in a folder: the original it is a copy of, that original's content
\* class, and whether all of its bytes are there
NoFile == [orig |-> "none", kind |-> "none", whole |-> FALSE]

VARIABLES
    data,             \* DATA_FOLDER: path -> content class, or "none"
    processing,       \* PROCESSING_FOLDER: name -> file
    validated,        \* VALIDATED_FOLDER: name -> file
    returns,          \* RETURNS_FOLDER: name -> file
    processing_files, \* JSONFileHandler.processing_files
    th,               \* per thread: its place in process_file and its locals
    phase,            \* the main thread's place in run_file_processor
    scanList,         \* process_existing_files: listing entries still to visit
    evt,              \* paths the watch source has a created event for
    created,          \* paths at which a file has been dropped
    events,           \* created events delivered so far
    crashes,          \* process deaths so far
    faults,           \* failed calls so far
    overlap,          \* history: a call was accepted for a path while another
                      \* invocation for that path was running
    cleanup_count,    \* run_file_processor: what cleanup_processing_folder
                      \* returned (main.py line 77)
    rec,              \* the argument of the function under study
    out,              \* what that function returned
    running           \* main.py line 20: the flag the main loop tests

vars == <<data, processing, validated, returns, processing_files, th, phase,
          scanList, evt, created, events, crashes, faults, overlap,
          cleanup_count,
                   rec, out, running>>

\* what the steps of a running invocation never write
outer == <<phase, scanList, evt, created, events, crashes, overlap,
           cleanup_count,
                   rec, out, running>>

\* ---------------------------------------------------------- thread state
\* a thread outside process_file
IdleTh ==
    [pc |-> "idle", path |-> "none", name |-> 0, dname |-> 0, attempt |-> 0,
     verdict |-> "none", ret |-> "none", exit |-> "none",
     emails |-> 0, forwards |-> 0, sent |-> 0, order |-> <<>>]

\* names a file or a running invocation holds
UsedNames ==
    {n \in Names : processing[n] # NoFile \/ validated[n] # NoFile
                   \/ returns[n] # NoFile}
    \cup {th[t].name : t \in Threads} \cup {th[t].dname : t \in Threads}

HasFresh == Names \ UsedNames # {}

\* str(uuid.uuid4())[:8] + "_" + name: a name nothing else carries
FreshName == CHOOSE n \in Names \ UsedNames : \A m \in Names \ UsedNames : n <= m

\* the observer thread dispatches events once observer.start() has run
ObserverRunning == phase \in {"listdir", "scan", "loop"}

\* the invocation of thread t is past the in-flight check and has not left
\* track_processing
Active(t) ==
    th[t].pc \in {"track", "access", "copy", "remove", "load", "move",
                  "forward", "email", "cleanup", "release"}

\* a call fails (PermissionError, OSError, a raising collaborator)
Fault == faults < MaxFaults /\ faults' = faults + 1

\* ------------------------------------------------------------------ Init
Init ==
    /\ data = [p \in AllPaths |-> "none"]
    /\ processing = [n \in Names |-> NoFile]
    /\ validated = [n \in Names |-> NoFile]
    /\ returns = [n \in Names |-> NoFile]
    /\ processing_files = {}
    /\ th = [t \in Threads |-> IdleTh]
    /\ phase = "startup"
    /\ scanList = {}
    /\ evt = [p \in AllPaths |-> FALSE]
    /\ created = {}
    /\ events = 0
    /\ crashes = 0
    /\ faults = 0
    /\ overlap = FALSE
    /\ cleanup_count = 0
    /\ rec = NoValue
    /\ out = NoValue
    /\ running = TRUE

\* ----------------------------------------------------------- environment
\* a producer drops a file at path p; a running watch source sees it
CreateFile(p, k) ==
    /\ p \notin created
    /\ data' = [data EXCEPT ![p] = k]
    /\ created' = created \cup {p}
    /\ evt' = [evt EXCEPT ![p] = ObserverRunning]
    /\ UNCHANGED <<processing, validated, returns, processing_files, th, phase,
                   scanList, events, crashes, faults, overlap,
                   cleanup_count,
                   rec, out, running>>

\* the process dies and run_file_processor is started again: memory is lost,
\* the folders are kept
Crash ==
    /\ crashes < MaxCrashes
    /\ crashes' = crashes + 1
    /\ th' = [t \in Threads |-> IdleTh]
    /\ processing_files' = {}
    /\ phase' = "startup"
    /\ scanList' = {}
    /\ evt' = [p \in AllPaths |-> FALSE]
    /\ UNCHANGED <<data, processing, validated, returns, created, events,
                   faults, overlap>>
    /\ cleanup_count' = 0
    /\ running' = TRUE
    /\ UNCHANGED <<rec, out>>

\* ---------------------------------------------------------- process_file
\* line 125: the membership test
AlreadyProcessing(p) == p \in processing_files

\* SkipDuplicate leaving through the exit of track_processing, which discards
\* the entry of the invocation that is still running
SkipDuplicateDiscards(t, p) ==
    /\ th' = [th EXCEPT ![t] = [IdleTh EXCEPT !.pc = "ret", !.path = p,
                                              !.ret = "False", !.exit = "dup"]]
    /\ processing_files' = processing_files \ {p}
    /\ UNCHANGED <<data, processing, validated, returns, overlap>>

\* lines 125-127: the path is tracked, the call returns False
SkipDuplicate(t, p) ==
    /\ th' = [th EXCEPT ![t] = [IdleTh EXCEPT !.pc = "ret", !.path = p,
                                              !.ret = "False", !.exit = "dup"]]
    /\ UNCHANGED <<data, processing, validated, returns, processing_files,
                   overlap>>

\* lines 129-131: the path is not tracked; the names are computed
Accept(t, p) ==
    /\ HasFresh
    /\ th' = [th EXCEPT ![t] = [IdleTh EXCEPT !.pc = "track", !.path = p,
                                              !.name = FreshName]]
    /\ overlap' = (overlap \/ \E u \in Threads \ {t} : Active(u) /\ th[u].path = p)
    /\ UNCHANGED <<data, processing, validated, returns, processing_files>>

\* the call process_file(p) by thread t, up to the with statement
process_file(t, p) ==
    IF AlreadyProcessing(p) THEN SkipDuplicate(t, p) ELSE Accept(t, p)

\* Unwind with the tracker released before the staged copy is deleted
UnwindReleaseFirst(from) ==
    CASE from = "try" -> "release"
      [] from = "with" -> "release"
      [] from = "release" -> "cleanup"
      [] OTHER -> "ret"

\* process_file, lines 133-148: how the nested with / try-finally unwinds.
\* A return inside the try (the file was routed, or routing failed) runs the
\* inner finally, safe_file_cleanup, and then the exit of track_processing; a
\* return before the try (lines 137 and 141) runs the exit of track_processing
\* alone.
Unwind(from) ==
    CASE from = "try" -> "cleanup"
      [] from = "cleanup" -> "release"
      [] from = "with" -> "release"
      [] OTHER -> "ret"

\* track_processing, line 33: processing_files.add(file_path)
Track(t) ==
    /\ th[t].pc = "track"
    /\ processing_files' = processing_files \cup {th[t].path}
    /\ th' = [th EXCEPT ![t].pc = "access"]
    /\ UNCHANGED <<data, processing, validated, returns, outer, faults>>

\* wait_for_file_access, lines 27-43, as process_file sees it: the polling
\* loop reads and never writes, so its run is one step of the pipeline.  It
\* returns True at a probe that finds the path present and readable, and
\* False when every probe found it absent or (a fault) unreadable.
wait_for_file_access(t) ==
    /\ th[t].pc = "access"
    /\ \/ /\ data[th[t].path] # "none"
          /\ th' = [th EXCEPT ![t].pc = "copy"]
          /\ UNCHANGED faults
       \/ /\ IF data[th[t].path] # "none" THEN Fault ELSE UNCHANGED faults
          /\ th' = [th EXCEPT ![t].pc = Unwind("with"), ![t].ret = "False",
                              ![t].exit = "access"]
    /\ UNCHANGED <<data, processing, validated, returns, processing_files, outer>>

\* safe_file_copy, lines 49-57 and 68-70: the copy into the processing folder.
\* It succeeds, fails after the destination was opened for writing, which
\* leaves a partial file there, or fails before that (the source is gone or
\* cannot be opened).
safe_file_copy(t) ==
    /\ th[t].pc = "copy"
    /\ \/ /\ data[th[t].path] # "none"
          /\ processing' = [processing EXCEPT ![th[t].name] =
                 [orig |-> th[t].path, kind |-> data[th[t].path], whole |-> TRUE]]
          /\ th' = [th EXCEPT ![t].pc = "remove"]
          /\ UNCHANGED faults
       \/ /\ data[th[t].path] # "none"
          /\ Fault
          /\ processing' = [processing EXCEPT ![th[t].name] =
                 [orig |-> th[t].path, kind |-> data[th[t].path], whole |-> FALSE]]
          /\ th' = [th EXCEPT ![t].pc = Unwind("with"), ![t].ret = "False",
                              ![t].exit = "copy"]
       \/ /\ IF data[th[t].path] # "none" THEN Fault ELSE UNCHANGED faults
          /\ UNCHANGED processing
          /\ th' = [th EXCEPT ![t].pc = Unwind("with"), ![t].ret = "False",
                              ![t].exit = "copy"]
    /\ UNCHANGED <<data, validated, returns, processing_files, outer>>

\* remove_original with a failed deletion treated as a failed copy: the
\* invocation aborts as at line 141
remove_original_or_abort(t) ==
    /\ th[t].pc = "remove"
    /\ \/ /\ data[th[t].path] # "none"
          /\ data' = [data EXCEPT ![th[t].path] = "none"]
          /\ th' = [th EXCEPT ![t].pc = "load"]
          /\ UNCHANGED faults
       \/ /\ IF data[th[t].path] # "none" THEN Fault ELSE UNCHANGED faults
          /\ UNCHANGED data
          /\ th' = [th EXCEPT ![t].pc = Unwind("with"), ![t].ret = "False",
                              ![t].exit = "copy"]
    /\ UNCHANGED <<processing, validated, returns, processing_files, outer>>

\* safe_file_copy, lines 59-67: os.remove(source_path); a failure is logged
\* and the function returns True all the same
remove_original(t) ==
    /\ th[t].pc = "remove"
    /\ \/ /\ data[th[t].path] # "none"
          /\ data' = [data EXCEPT ![th[t].path] = "none"]
          /\ UNCHANGED faults
       \/ /\ IF data[th[t].path] # "none" THEN Fault ELSE UNCHANGED faults
          /\ UNCHANGED data
    /\ th' = [th EXCEPT ![t].pc = "load"]
    /\ UNCHANGED <<processing, validated, returns, processing_files, outer>>

\* _load_json_file, lines 193-201, on content of class k: the parsed data, or
\* an error message when json.load raises JSONDecodeError
load_json_file(k) == IF k = "malformed" THEN "malformed" ELSE "data"

\* _validate_data without the schema check
validate_data_unchecked(k) == IF k = "nonobject" THEN "raise" ELSE "True"

\* _validate_data, lines 213-226, on parsed content of class k: True, the
\* error list of the schema, or an exception (the data is not a mapping)
validate_data(k) ==
    CASE k = "valid" -> "True"
      [] k = "invalid" -> "errors"
      [] OTHER -> "raise"

\* _process_json_file, lines 160-181: which branch the staged content takes
Verdict(k) ==
    IF load_json_file(k) # "data" THEN "malformed"
    ELSE CASE validate_data(k) = "True" -> "valid"
           [] validate_data(k) = "errors" -> "invalid"
           [] OTHER -> "exception"

\* _process_json_file, lines 160-181, up to the call of _handle_valid_file or
\* _handle_error: the staged copy is read and validated; the read itself may
\* fail (lines 199-201)
load_and_validate(t) ==
    /\ th[t].pc = "load"
    /\ \/ /\ th' = [th EXCEPT ![t].pc = "move", ![t].dname = th[t].name,
                       ![t].verdict = Verdict(processing[th[t].name].kind)]
          /\ UNCHANGED faults
       \/ /\ Fault
          /\ th' = [th EXCEPT ![t].pc = "move", ![t].dname = th[t].name,
                              ![t].verdict = "readerr"]
    /\ UNCHANGED <<data, processing, validated, returns, processing_files, outer>>

\* _handle_valid_file line 242 / _handle_error line 263: the folder routed to
ToValidated(t) == th[t].verdict = "valid"

\* the thread's locals when move_file returns: on to the forwarding call
\* (line 251), to the return of line 244, or to the notification (line 273)
AfterMove(t, d, ok) ==
    IF ToValidated(t)
    THEN IF ok
         THEN [th EXCEPT ![t].pc = "forward", ![t].dname = d, ![t].attempt = 0,
                         ![t].order = Append(@, "route")]
         ELSE [th EXCEPT ![t].pc = Unwind("try"), ![t].dname = d, ![t].attempt = 0,
                         ![t].ret = "False", ![t].exit = "routefail",
                         ![t].order = Append(@, "route")]
    ELSE [th EXCEPT ![t].pc = "email", ![t].dname = d, ![t].attempt = 0,
                    ![t].order = Append(@, "route")]

\* move_file without lines 63-66: every attempt writes to the desired name
move_file_overwrite(t) ==
    /\ th[t].pc = "move"
    /\ LET staged == processing[th[t].name]
           last == th[t].attempt + 1 = FILE_MOVE_MAX_ATTEMPTS
           d == th[t].dname
           failed == IF last THEN AfterMove(t, d, FALSE)
                     ELSE [th EXCEPT ![t].attempt = @ + 1]
           put(f) == IF ToValidated(t)
                     THEN /\ validated' = [validated EXCEPT ![d] = f]
                          /\ UNCHANGED returns
                     ELSE /\ returns' = [returns EXCEPT ![d] = f]
                          /\ UNCHANGED validated
       IN  \/ /\ put(staged)
              /\ th' = AfterMove(t, d, TRUE)
              /\ UNCHANGED faults
           \/ /\ Fault
              /\ put([staged EXCEPT !.whole = FALSE])
              /\ th' = failed
           \/ /\ Fault
              /\ UNCHANGED <<validated, returns>>
              /\ th' = failed
    /\ UNCHANGED <<data, processing, processing_files, outer>>

\* move_file that renames: a successful attempt takes the staged file away
\* from the processing folder
move_file_renaming(t) ==
    /\ th[t].pc = "move"
    /\ LET dest == IF ToValidated(t) THEN validated ELSE returns
           taken == dest[th[t].dname] # NoFile
           staged == processing[th[t].name]
           last == th[t].attempt + 1 = FILE_MOVE_MAX_ATTEMPTS
       IN  /\ taken => HasFresh
           /\ LET d == IF taken THEN FreshName ELSE th[t].dname
                  failed == IF last THEN AfterMove(t, d, FALSE)
                            ELSE [th EXCEPT ![t].dname = d, ![t].attempt = @ + 1]
                  put(f) == IF ToValidated(t)
                            THEN /\ validated' = [validated EXCEPT ![d] = f]
                                 /\ UNCHANGED returns
                            ELSE /\ returns' = [returns EXCEPT ![d] = f]
                                 /\ UNCHANGED validated
              IN  \/ /\ put(staged)
                     /\ processing' = [processing EXCEPT ![th[t].name] = NoFile]
                     /\ th' = AfterMove(t, d, TRUE)
                     /\ UNCHANGED faults
                  \/ /\ Fault
                     /\ put([staged EXCEPT !.whole = FALSE])
                     /\ UNCHANGED processing
                     /\ th' = failed
                  \/ /\ Fault
                     /\ UNCHANGED <<validated, returns, processing>>
                     /\ th' = failed
    /\ UNCHANGED <<data, processing_files, outer>>

\* move_file, lines 60-76: one attempt of the retry loop.  A taken destination
\* name is replaced by a new one (lines 63-66); shutil.copy2 then succeeds,
\* fails after it created the destination, or fails leaving nothing.
move_file(t) ==
    /\ th[t].pc = "move"
    /\ LET dest == IF ToValidated(t) THEN validated ELSE returns
           taken == dest[th[t].dname] # NoFile
           staged == processing[th[t].name]
           last == th[t].attempt + 1 = FILE_MOVE_MAX_ATTEMPTS
       IN  /\ taken => HasFresh
           /\ LET d == IF taken THEN FreshName ELSE th[t].dname
                  failed == IF last THEN AfterMove(t, d, FALSE)
                            ELSE [th EXCEPT ![t].dname = d, ![t].attempt = @ + 1]
                  put(f) == IF ToValidated(t)
                            THEN /\ validated' = [validated EXCEPT ![d] = f]
                                 /\ UNCHANGED returns
                            ELSE /\ returns' = [returns EXCEPT ![d] = f]
                                 /\ UNCHANGED validated
              IN  \/ /\ put(staged)
                     /\ th' = AfterMove(t, d, TRUE)
                     /\ UNCHANGED faults
                  \/ /\ Fault
                     /\ put([staged EXCEPT !.whole = FALSE])
                     /\ th' = failed
                  \/ /\ Fault
                     /\ UNCHANGED <<validated, returns>>
                     /\ th' = failed
    /\ UNCHANGED <<data, processing, processing_files, outer>>

\* send_to_third_party whose failure is reported like a rejected file: the
\* notification is sent as well
send_to_third_party_notifying(t) ==
    /\ th[t].pc = "forward"
    /\ \E ok \in BOOLEAN :
          /\ IF ok THEN UNCHANGED faults ELSE Fault
          /\ th' = [th EXCEPT ![t].pc = Unwind("try"), ![t].forwards = @ + 1,
                              ![t].sent = th[t].name,
                              ![t].emails = IF ok THEN @ ELSE @ + 1,
                              ![t].order = Append(@, "forward"),
                              ![t].ret = IF ok THEN "True" ELSE "False",
                              ![t].exit = IF ok THEN "ok" ELSE "fwdfail"]
    /\ UNCHANGED <<data, processing, validated, returns, processing_files, outer>>

\* send_to_third_party, called at line 251 with VALIDATED_FOLDER/file_name
\* (third_party.py lines 82-100): True when a transmission succeeds, False when
\* every retry raised; the transmission is the external call
send_to_third_party(t) ==
    /\ th[t].pc = "forward"
    /\ \E ok \in BOOLEAN :
          /\ IF ok THEN UNCHANGED faults ELSE Fault
          /\ th' = [th EXCEPT ![t].pc = Unwind("try"), ![t].forwards = @ + 1,
                              ![t].sent = th[t].name,
                              ![t].order = Append(@, "forward"),
                              ![t].ret = IF ok THEN "True" ELSE "False",
                              ![t].exit = IF ok THEN "ok" ELSE "fwdfail"]
    /\ UNCHANGED <<data, processing, validated, returns, processing_files, outer>>

\* _handle_error, lines 266-273, and the return False that follows it:
\* send_error_email is called and returns (it sent the message, or it caught
\* the failure of the SMTP exchange); its result is not looked at
send_error_email(t) ==
    /\ th[t].pc = "email"
    /\ Encodes(th[t].path)
    /\ th' = [th EXCEPT ![t].pc = Unwind("try"), ![t].emails = @ + 1,
                        ![t].ret = "False", ![t].exit = "rejected",
                        ![t].order = Append(@, "notify")]
    /\ UNCHANGED <<data, processing, validated, returns, processing_files,
                   outer, faults>>

\* _handle_error line 273 when send_error_email raises: the message is built
\* outside the try of email_handler.py (lines 46-50), and MIMEText(body)
\* raises UnicodeEncodeError for a body that holds a lone surrogate, which the
\* file name puts there.  Raised under the try of _process_json_file (lines
\* 163 and 170), the exception is caught at line 177 and _handle_error runs
\* again (line 180): move_file to returns, then send_error_email; raised in
\* that handler, it leaves _process_json_file and process_file through the
\* finally of line 146 and the exit of track_processing.
send_error_email_raises(t) ==
    /\ th[t].pc = "email"
    /\ ~Encodes(th[t].path)
    /\ th' = IF th[t].verdict = "exception"
             THEN [th EXCEPT ![t].pc = Unwind("try"), ![t].emails = @ + 1,
                             ![t].ret = "raise", ![t].exit = "raised",
                             ![t].order = Append(@, "notify")]
             ELSE [th EXCEPT ![t].pc = "move", ![t].emails = @ + 1,
                             ![t].verdict = "exception",
                             ![t].dname = th[t].name, ![t].attempt = 0,
                             ![t].order = Append(@, "notify")]
    /\ UNCHANGED <<data, processing, validated, returns, processing_files,
                   outer, faults>>

\* safe_file_cleanup, lines 79-84, called from the finally of line 146: the
\* staged copy is removed, unless os.remove raises
safe_file_cleanup(t) ==
    /\ th[t].pc = "cleanup"
    /\ \/ /\ processing' = [processing EXCEPT ![th[t].name] = NoFile]
          /\ UNCHANGED faults
       \/ /\ processing[th[t].name] # NoFile
          /\ Fault
          /\ UNCHANGED processing
    /\ th' = [th EXCEPT ![t].pc = Unwind("cleanup"),
                        ![t].order = Append(@, "cleanup")]
    /\ UNCHANGED <<data, validated, returns, processing_files, outer>>

\* track_processing, line 36: processing_files.discard(file_path)
Release(t) ==
    /\ th[t].pc = "release"
    /\ processing_files' = processing_files \ {th[t].path}
    /\ th' = [th EXCEPT ![t].pc = Unwind("release"),
                        ![t].order = Append(@, "release")]
    /\ UNCHANGED <<data, processing, validated, returns, outer, faults>>

\* process_file has returned to its caller (on_created, or the loop of
\* process_existing_files)
Return(t) ==
    /\ th[t].pc = "ret"
    /\ th[t].ret # "raise"
    /\ th' = [th EXCEPT ![t] = IdleTh]
    /\ UNCHANGED <<data, processing, validated, returns, processing_files,
                   outer, faults>>

\* process_file has raised into its caller.  On the main thread the
\* exception leaves process_existing_files and is caught in run_file_processor
\* (main.py lines 106-109): the observer is stopped and the program returns 1.
\* On the observer thread it leaves on_created (line 113) and ends the thread:
\* the events it held are gone, and the observer the main loop starts in its
\* place (main.py lines 101-105) reports only files created after its start.
Escape(t) ==
    /\ th[t].pc = "ret"
    /\ th[t].ret = "raise"
    /\ IF t = "main"
       THEN /\ phase' = "exited"
            /\ th' = [u \in Threads |-> IdleTh]
            /\ processing_files' = {}
            /\ scanList' = {}
       ELSE /\ th' = [th EXCEPT ![t] = IdleTh]
            /\ UNCHANGED <<phase, processing_files, scanList>>
    /\ evt' = [p \in AllPaths |-> FALSE]
    /\ UNCHANGED <<data, processing, validated, returns, created, events,
                   crashes, faults, overlap,
                   cleanup_count,
                   rec, out, running>>

\* ------------------------------------------------------- the two callers
\* on_created, lines 107-113: the observer thread hands a created event for
\* path p to process_file; the source may deliver an event again, or late
on_created(p) ==
    /\ ObserverRunning
    /\ th["watch"].pc = "idle"
    /\ evt[p]
    /\ events < MaxEvents
    /\ events' = events + 1
    /\ process_file("watch", p)
    /\ UNCHANGED <<phase, scanList, evt, created, crashes, faults, cleanup_count,
                   rec, out, running>>

\* cleanup_processing_folder copying each file to returns and leaving it in
\* the processing folder
cleanup_processing_folder_copies ==
    /\ phase = "startup"
    /\ LET present == {n \in Names : processing[n] # NoFile}
       IN  \E moved \in SUBSET present :
              /\ Cardinality(present \ moved) <= MaxFaults - faults
              /\ faults' = faults + Cardinality(present \ moved)
              /\ returns' = [n \in Names |-> IF n \in moved THEN processing[n]
                                             ELSE returns[n]]
              /\ UNCHANGED processing
              /\ cleanup_count' = Cardinality(moved)
              /\ UNCHANGED <<rec, out, running>>
    /\ phase' = "observe"
    /\ UNCHANGED <<data, validated, processing_files, th, scanList, evt,
                   created, events, crashes, overlap>>

\* cleanup_processing_folder counting the files it found instead of the
\* files it moved
cleanup_processing_folder_counts_found ==
    /\ phase = "startup"
    /\ LET present == {n \in Names : processing[n] # NoFile}
       IN  \E moved \in SUBSET present :
              /\ Cardinality(present \ moved) <= MaxFaults - faults
              /\ faults' = faults + Cardinality(present \ moved)
              /\ returns' = [n \in Names |-> IF n \in moved THEN processing[n]
                                             ELSE returns[n]]
              /\ processing' = [n \in Names |-> IF n \in moved THEN NoFile
                                                ELSE processing[n]]
              /\ cleanup_count' = Cardinality(present)
              /\ UNCHANGED <<rec, out, running>>
    /\ phase' = "observe"
    /\ UNCHANGED <<data, validated, processing_files, th, scanList, evt,
                   created, events, crashes, overlap>>

\* cleanup_processing_folder, lines 144-159, called at main.py line 77: every
\* file of the processing folder is moved to the returns folder under its own
\* name, except those whose move raises
cleanup_processing_folder ==
    /\ phase = "startup"
    /\ LET present == {n \in Names : processing[n] # NoFile}
       IN  \E moved \in SUBSET present :
              /\ Cardinality(present \ moved) <= MaxFaults - faults
              /\ faults' = faults + Cardinality(present \ moved)
              /\ returns' = [n \in Names |-> IF n \in moved THEN processing[n]
                                             ELSE returns[n]]
              /\ processing' = [n \in Names |-> IF n \in moved THEN NoFile
                                                ELSE processing[n]]
              /\ cleanup_count' = Cardinality(moved)
              /\ UNCHANGED <<rec, out, running>>
    /\ phase' = "observe"
    /\ UNCHANGED <<data, validated, processing_files, th, scanList, evt,
                   created, events, crashes, overlap>>

\* main.py lines 82-87: the handler is made and observer.start() is called
observer_start ==
    /\ phase = "observe"
    /\ phase' = "listdir"
    /\ UNCHANGED <<data, processing, validated, returns, processing_files, th,
                   scanList, evt, created, events, crashes, faults, overlap,
                   cleanup_count,
                   rec, out, running>>

\* process_existing_files, line 38: os.listdir(DATA_FOLDER)
list_existing ==
    /\ phase = "listdir"
    /\ scanList' = {p \in AllPaths : data[p] # "none"}
    /\ phase' = "scan"
    /\ UNCHANGED <<data, processing, validated, returns, processing_files, th,
                   evt, created, events, crashes, faults, overlap,
                   cleanup_count,
                   rec, out, running>>

\* process_existing_files, lines 38-44: the next entry of the listing; it is
\* processed if it is still a file
process_existing_files(p) ==
    /\ phase = "scan"
    /\ th["main"].pc = "idle"
    /\ p \in scanList
    /\ scanList' = scanList \ {p}
    /\ IF data[p] # "none"
       THEN process_file("main", p)
       ELSE UNCHANGED <<data, processing, validated, returns,
                        processing_files, th, overlap>>
    /\ UNCHANGED <<phase, evt, created, events, crashes, faults, cleanup_count,
                   rec, out, running>>

\* process_existing_files returns and the main loop (lines 97-105) begins
main_loop ==
    /\ phase = "scan"
    /\ th["main"].pc = "idle"
    /\ scanList = {}
    /\ phase' = "loop"
    /\ UNCHANGED <<data, processing, validated, returns, processing_files, th,
                   scanList, evt, created, events, crashes, faults, overlap,
                   cleanup_count,
                   rec, out, running>>

\* ------------------------------------------------------------------ Next
Next ==
    \/ \E p \in Paths, k \in Kinds : CreateFile(p, k)
    \/ Crash
    \/ cleanup_processing_folder
    \/ observer_start
    \/ list_existing
    \/ \E p \in Paths : process_existing_files(p)
    \/ main_loop
    \/ \E p \in Paths : on_created(p)
    \/ \E t \in Threads : Track(t)
    \/ \E t \in Threads : wait_for_file_access(t)
    \/ \E t \in Threads : safe_file_copy(t)
    \/ \E t \in Threads : remove_original(t)
    \/ \E t \in Threads : load_and_validate(t)
    \/ \E t \in Threads : move_file(t)
    \/ \E t \in Threads : send_to_third_party(t)
    \/ \E t \in Threads : send_error_email(t)
    \/ \E t \in Threads : safe_file_cleanup(t)
    \/ \E t \in Threads : Release(t)
    \/ \E t \in Threads : Return(t)

Spec == Init /\ [][Next]_vars

\* the program when the file dropped into DATA_FOLDER has a name that is not
\* UTF-8
NextRawName ==
    \/ \E p \in RawNamePaths, k \in Kinds : CreateFile(p, k)
    \/ Crash
    \/ cleanup_processing_folder
    \/ observer_start
    \/ list_existing
    \/ \E p \in RawNamePaths : process_existing_files(p)
    \/ main_loop
    \/ \E p \in RawNamePaths : on_created(p)
    \/ \E t \in Threads : Track(t)
    \/ \E t \in Threads : wait_for_file_access(t)
    \/ \E t \in Threads : safe_file_copy(t)
    \/ \E t \in Threads : remove_original(t)
    \/ \E t \in Threads : load_and_validate(t)
    \/ \E t \in Threads : move_file(t)
    \/ \E t \in Threads : send_to_third_party(t)
    \/ \E t \in Threads : send_error_email_raises(t)
    \/ \E t \in Threads : safe_file_cleanup(t)
    \/ \E t \in Threads : Release(t)
    \/ \E t \in Threads : Return(t)
    \/ \E t \in Threads : Escape(t)

SpecRawName == Init /\ [][NextRawName]_vars

\* ------------------------------------------------------ startup recovery
\* cleanup_processing_folder on its own: the process is started on folders a
\* previous run left behind, runs the recovery, and is started again at once
\* what a previous run can have left under a name: nothing, a whole staged
\* copy, or the partial file of a failed copy
LeftBehind ==
    {NoFile, [orig |-> "a.json", kind |-> "valid", whole |-> TRUE],
             [orig |-> "a.json", kind |-> "valid", whole |-> FALSE]}

InitRecovery ==
    /\ data = [p \in AllPaths |-> "none"]
    /\ processing \in [Names -> LeftBehind]
    /\ validated = [n \in Names |-> NoFile]
    /\ returns \in [Names -> LeftBehind]
    /\ processing_files = {}
    /\ th = [t \in Threads |-> IdleTh]
    /\ phase = "startup"
    /\ scanList = {}
    /\ evt = [p \in AllPaths |-> FALSE]
    /\ created = {}
    /\ events = 0
    /\ crashes = 0
    /\ faults = 0
    /\ overlap = FALSE
    /\ cleanup_count = 0
    /\ rec = NoValue
    /\ out = NoValue
    /\ running = TRUE

\* the process is stopped right after the recovery and started again
RunAgain ==
    /\ phase = "observe"
    /\ Crash

NextRecovery ==
    \/ cleanup_processing_folder
    \/ RunAgain

SpecRecovery == InitRecovery /\ [][NextRecovery]_vars

\* ---------------------------------------------------- the record schema
\* JSONSchema and CustomerData (models/schemas.py) as pydantic 2 evaluates
\* them (Field(pattern=...) is its keyword), applied by _validate_data to one
\* parsed record.

\* how far past a length limit the strings of the records go
LenSlack == 1

OPERATOR_ID_MIN_LENGTH == 5
CUSTOMER_ID_MIN_LENGTH == 7
CARD_NUMBER_LENGTH == 16

\* A JSON value under a key: the key is absent, or holds null, a number, a
\* mapping, or a string.  Of a string the schema looks at the length and at
\* the characters: "ascii" is letters and digits of ASCII only, "unicode" is
\* alphanumeric characters (str.isalnum) not all ASCII, "other" has a
\* character that is not alphanumeric.
Scalar(t) == [t |-> t, len |-> 0, chars |-> "ascii"]
Text(l, c) == [t |-> "text", len |-> l, chars |-> c]
Present(v) == v.t \notin {"absent", "null"}

OperatorIDs ==
    {Scalar("absent"), Scalar("null"), Scalar("number")}
    \cup {Text(l, c) :
            l \in (OPERATOR_ID_MIN_LENGTH - 1) .. (OPERATOR_ID_MIN_LENGTH + LenSlack),
            c \in {"ascii", "unicode", "other"}}
CustomerIDs ==
    {Scalar("absent"), Scalar("null"), Scalar("number")}
    \cup {Text(l, "ascii") :
            l \in (CUSTOMER_ID_MIN_LENGTH - 1) .. (CUSTOMER_ID_MIN_LENGTH + LenSlack)}
CardNumbers ==
    {Scalar("absent"), Scalar("null"), Scalar("number")}
    \cup {Text(l, "ascii") :
            l \in (CARD_NUMBER_LENGTH - 1) .. (CARD_NUMBER_LENGTH + LenSlack)}
\* Optional[Dict[str, Any]] fields: Metadata, CustomerDetails
FreeForms == {Scalar("absent"), Scalar("null"), Scalar("map"), Text(1, "ascii")}

\* the value under Customer: absent, null, not a mapping, or a mapping
NoCustomer(t) ==
    [t |-> t, CustomerID |-> Scalar("absent"),
     CustomerCardNumber |-> Scalar("absent"), CustomerDetails |-> Scalar("absent")]
Customers ==
    {NoCustomer("absent"), NoCustomer("null"), NoCustomer("text")}
    \cup [t : {"map"}, CustomerID : CustomerIDs, CustomerCardNumber : CardNumbers,
          CustomerDetails : {Scalar("absent"), Scalar("map"), Text(1, "ascii")}]

\* the parsed records (JSON objects) _validate_data is given
Records ==
    [OperatorID : OperatorIDs, CustomerID : CustomerIDs,
     CustomerCardNumber : CardNumbers, Customer : Customers,
     Metadata : FreeForms]

\* check_structure, lines 43-48
has_nested(r) == Present(r.Customer)
has_direct_fields(r) == Present(r.CustomerID) /\ Present(r.CustomerCardNumber)

\* check_structure without the test of lines 58-62
check_structure_nested_wins(r) ==
    CASE ~(has_direct_fields(r) \/ has_nested(r)) -> "missing_identity"
      [] has_nested(r) -> "nested"
      [] OTHER -> "flat"

\* check_structure accepting the nested shape only
check_structure_nested_only(r) ==
    CASE ~has_nested(r) -> "missing_identity"
      [] has_direct_fields(r) -> "ambiguous"
      [] OTHER -> "nested"

\* check_structure, lines 51-67: the error raised, or the structure type set
check_structure(r) ==
    CASE ~(has_direct_fields(r) \/ has_nested(r)) -> "missing_identity"
      [] has_direct_fields(r) /\ has_nested(r) -> "ambiguous"
      [] has_nested(r) -> "nested"
      [] OTHER -> "flat"

\* validate_operator_id, lines 69-74: str.isalnum
validate_operator_id(v) == v.len > 0 /\ v.chars \in {"ascii", "unicode"}

\* FieldError without the max_length test
FieldError_no_max_length(v, required, lo, hi, ascii) ==
    CASE v.t = "absent" -> IF required THEN "missing" ELSE ""
      [] v.t = "null" -> IF required THEN "string_type" ELSE ""
      [] v.t # "text" -> "string_type"
      [] v.len < lo -> "string_too_short"
      [] ascii /\ v.chars # "ascii" -> "string_pattern_mismatch"
      [] ascii /\ ~validate_operator_id(v) -> "value_error"
      [] OTHER -> ""

\* the error of one field, "" when it validates.  required: Field(...);
\* lo, hi: min_length and max_length (hi = 0: none); ascii: the pattern
FieldError(v, required, lo, hi, ascii) ==
    CASE v.t = "absent" -> IF required THEN "missing" ELSE ""
      [] v.t = "null" -> IF required THEN "string_type" ELSE ""
      [] v.t # "text" -> "string_type"
      [] v.len < lo -> "string_too_short"
      [] hi > 0 /\ v.len > hi -> "string_too_long"
      [] ascii /\ v.chars # "ascii" -> "string_pattern_mismatch"
      [] ascii /\ ~validate_operator_id(v) -> "value_error"
      [] OTHER -> ""

\* Optional[Dict[str, Any]]
FreeFormError(v) == IF v.t \in {"absent", "null", "map"} THEN "" ELSE "dict_type"

\* an entry of ValidationError.errors(): where, what, and the part of the
\* input pydantic puts under its key 'input' (the value that failed; for a
\* missing field and for an error of check_structure the mapping it was
\* looked up in)
Err(loc, type, input) == [loc |-> loc, type |-> type, input |-> input]

\* CustomerData, lines 7-15, on the value under Customer
CustomerErrors(c) ==
    CASE c.t \in {"absent", "null"} -> {}
      [] c.t # "map" -> {Err("Customer", "model_type", "Customer")}
      [] OTHER ->
           LET id == FieldError(c.CustomerID, TRUE, CUSTOMER_ID_MIN_LENGTH, 0, FALSE)
               card == FieldError(c.CustomerCardNumber, TRUE, CARD_NUMBER_LENGTH,
                                  CARD_NUMBER_LENGTH, FALSE)
               det == FreeFormError(c.CustomerDetails)
           IN  {Err("Customer.CustomerID", id,
                    IF id = "missing" THEN "Customer" ELSE "Customer.CustomerID") :
                  x \in IF id = "" THEN {} ELSE {1}}
               \cup {Err("Customer.CustomerCardNumber", card,
                         IF card = "missing" THEN "Customer"
                         ELSE "Customer.CustomerCardNumber") :
                       x \in IF card = "" THEN {} ELSE {1}}
               \cup {Err("Customer.CustomerDetails", det, "Customer.CustomerDetails") :
                       x \in IF det = "" THEN {} ELSE {1}}

\* JSONSchema(**data), lines 24-79: the errors of the record; check_structure
\* runs first (pre=True) and its error ends the validation
SchemaErrors(r) ==
    IF check_structure(r) \in {"missing_identity", "ambiguous"}
    THEN {Err("", check_structure(r), "record")}
    ELSE LET op == FieldError(r.OperatorID, TRUE, OPERATOR_ID_MIN_LENGTH, 0, TRUE)
             id == FieldError(r.CustomerID, FALSE, CUSTOMER_ID_MIN_LENGTH, 0, FALSE)
             card == FieldError(r.CustomerCardNumber, FALSE, CARD_NUMBER_LENGTH,
                                CARD_NUMBER_LENGTH, FALSE)
             meta == FreeFormError(r.Metadata)
         IN  {Err("OperatorID", op, IF op = "missing" THEN "record" ELSE "OperatorID") :
                x \in IF op = "" THEN {} ELSE {1}}
             \cup {Err("CustomerID", id, "CustomerID") :
                     x \in IF id = "" THEN {} ELSE {1}}
             \cup {Err("CustomerCardNumber", card, "CustomerCardNumber") :
                     x \in IF card = "" THEN {} ELSE {1}}
             \cup CustomerErrors(r.Customer)
             \cup {Err("Metadata", meta, "Metadata") :
                     x \in IF meta = "" THEN {} ELSE {1}}

\* _validate_data, lines 222-226: True, or the error list; with the structure
\* type check_structure derived for an accepted record
ValidateData(r) ==
    [ok |-> SchemaErrors(r) = {},
     structure_type |-> IF SchemaErrors(r) = {} THEN check_structure(r) ELSE "none",
     errors |-> SchemaErrors(r)]

\* _process_json_file, lines 169-171: f"Invalid JSON structure:
\* {validation_result}" renders every entry of the error list with its
\* 'input'; _handle_error writes the text to app_logger.warning (line 266)
\* and passes it to send_error_email (line 273).  The parts of the record
\* the text shows:
error_msg(validation_result) == {e.input : e \in validation_result.errors}

InitSchema ==
    /\ data = [p \in AllPaths |-> "none"]
    /\ processing = [n \in Names |-> NoFile]
    /\ validated = [n \in Names |-> NoFile]
    /\ returns = [n \in Names |-> NoFile]
    /\ processing_files = {}
    /\ th = [t \in Threads |-> IdleTh]
    /\ phase = "call"
    /\ scanList = {}
    /\ evt = [p \in AllPaths |-> FALSE]
    /\ created = {}
    /\ events = 0
    /\ crashes = 0
    /\ faults = 0
    /\ overlap = FALSE
    /\ cleanup_count = 0
    /\ rec \in Records
    /\ out = NoValue
    /\ running = TRUE

\* _validate_data(data) is called and returns
ValidateRecord ==
    /\ phase = "call"
    /\ phase' = "returned"
    /\ out' = ValidateData(rec)
    /\ UNCHANGED <<data, processing, validated, returns, processing_files, th,
                   scanList, evt, created, events, crashes, faults, overlap,
                   cleanup_count, rec, running>>

NextSchema == ValidateRecord

SpecSchema == InitSchema /\ [][NextSchema]_vars

\* ------------------------------------------- sanitize_data_for_logging
\* items of a sequence or mapping nested in the data
MaxItems == 2

\* line 102: the shortest card number that is masked
MASK_MIN_LENGTH == 8
\* line 103: the characters of a masked card number left readable
MASK_REVEALED == 4

CARD_KEY == "CustomerCardNumber"
Keys == {CARD_KEY, "Metadata"}

\* A JSON value: null, a string (its characters), a sequence (its items) or
\* a mapping (its entries, key and value, in insertion order).
DigitChars == <<"1", "2", "3", "4", "5", "6", "7", "8">>
Digits(n) == [i \in 1 .. n |-> DigitChars[((i - 1) % Len(DigitChars)) + 1]]
Null == [k |-> "null", s |-> <<>>, items |-> <<>>]
Str(chars) == [k |-> "str", s |-> chars, items |-> <<>>]
List(items) == [k |-> "list", s |-> <<>>, items |-> items]
Dict(entries) == [k |-> "dict", s |-> <<>>, items |-> entries]

SeqsUpTo(S, n) == UNION {[1 .. m -> S] : m \in 0 .. n}
DistinctKeys(q) == \A i, j \in DOMAIN q : q[i].key = q[j].key => i = j
Lists(S, n) == {List(q) : q \in SeqsUpTo(S, n)}
Dicts(S, n) ==
    {Dict(q) : q \in {e \in SeqsUpTo([key : Keys, val : S], n) : DistinctKeys(e)}}

\* strings one short of the masking threshold, at it, and of card length
Leaves ==
    {Null, Str(Digits(MASK_MIN_LENGTH - 1)), Str(Digits(MASK_MIN_LENGTH)),
     Str(Digits(CARD_NUMBER_LENGTH))}
Nested == Leaves \cup Lists(Leaves, MaxItems) \cup Dicts(Leaves, MaxItems)
\* the values the function is called with: the outermost sequence or
\* mapping holds up to two items
LoggedData == Nested \cup Lists(Nested, 2) \cup Dicts(Nested, 2)

\* the test of line 102 without the key
is_long_string(key, value) ==
    value.k = "str" /\ Len(value.s) >= MASK_MIN_LENGTH

\* line 102: the entry is a card number to mask
is_card_number(key, value) ==
    key = CARD_KEY /\ value.k = "str" /\ Len(value.s) >= MASK_MIN_LENGTH

\* masking that reveals the first characters instead of the last
mask_card_number_head(value) ==
    Str(SubSeq(value.s, 1, MASK_REVEALED)
        \o [i \in 1 .. (Len(value.s) - MASK_REVEALED) |-> "*"])

\* line 103: '*' * (len(value) - 4) + value[-4:]
mask_card_number(value) ==
    Str([i \in 1 .. (Len(value.s) - MASK_REVEALED) |-> "*"]
        \o SubSeq(value.s, Len(value.s) - MASK_REVEALED + 1, Len(value.s)))

\* lines 87-114
RECURSIVE sanitize_data_for_logging(_)
sanitize_data_for_logging(d) ==
    CASE d.k = "null" -> d
      [] d.k \notin {"dict", "list"} -> d
      [] d.k = "list" ->
           List([i \in DOMAIN d.items |-> sanitize_data_for_logging(d.items[i])])
      [] OTHER ->
           Dict([i \in DOMAIN d.items |->
                   LET key == d.items[i].key
                       value == d.items[i].val
                   IN  [key |-> key,
                        val |->
                          CASE is_card_number(key, value) -> mask_card_number(value)
                            [] value.k = "dict" -> sanitize_data_for_logging(value)
                            [] value.k = "list" ->
                                 List([j \in DOMAIN value.items |->
                                         sanitize_data_for_logging(value.items[j])])
                            [] OTHER -> value]])

InitSanitize ==
    /\ data = [p \in AllPaths |-> "none"]
    /\ processing = [n \in Names |-> NoFile]
    /\ validated = [n \in Names |-> NoFile]
    /\ returns = [n \in Names |-> NoFile]
    /\ processing_files = {}
    /\ th = [t \in Threads |-> IdleTh]
    /\ phase = "call"
    /\ scanList = {}
    /\ evt = [p \in AllPaths |-> FALSE]
    /\ created = {}
    /\ events = 0
    /\ crashes = 0
    /\ faults = 0
    /\ overlap = FALSE
    /\ cleanup_count = 0
    /\ rec \in LoggedData
    /\ out = NoValue
    /\ running = TRUE

\* sanitize_data_for_logging(data) is called and returns: the result is a
\* new structure, data is only read
Sanitize ==
    /\ phase = "call"
    /\ phase' = "returned"
    /\ out' = sanitize_data_for_logging(rec)
    /\ UNCHANGED <<data, processing, validated, returns, processing_files, th,
                   scanList, evt, created, events, crashes, faults, overlap,
                   cleanup_count, rec, running>>

NextSanitize == Sanitize

SpecSanitize == InitSanitize /\ [][NextSanitize]_vars

\* ---------------------------------------------------- run_file_processor
\* run_file_processor (main.py lines 47-123) from its first statement to its
\* return: the startup checks, the recovery, the watch source, the scan, the
\* main loop and the shutdown.

FILE_ACCESS_MAX_ATTEMPTS == 10
FILE_ACCESS_DELAY == 1
\* main.py line 116: observer.join(timeout=5)
JOIN_TIMEOUT == 5

\* What the process is started in.  free_space: the disk has
\* MIN_DISK_SPACE_MB free; folders: the required folders exist or can be made
\* and are readable and writable ("ok"), one exists without read/write access
\* ("no_access"), or one does not exist and cannot be made ("not_creatable");
\* password: EMAIL_PASSWORD is set and not empty.
Environments ==
    [free_space : BOOLEAN, folders : {"ok", "no_access", "not_creatable"},
     password : BOOLEAN]

\* check_system_requirements without the test of the environment variables
check_system_requirements_no_env(env) ==
    env.free_space /\ env.folders # "no_access"

\* validators.py lines 15-56
check_system_requirements(env) ==
    /\ env.free_space
    /\ env.folders # "no_access"
    /\ env.password

\* file_operations.py lines 116-136: os.makedirs(folder, exist_ok=True) on
\* every required folder
ensure_directories(env) == env.folders # "not_creatable"

\* the processing folder holds what a previous run left in it: nothing, or a
\* staged copy under the first name
InitRun ==
    /\ data = [p \in AllPaths |-> "none"]
    /\ \E f \in {g \in LeftBehind : g = NoFile \/ g.whole} :
          processing = [n \in Names |-> IF n = 1 THEN f ELSE NoFile]
    /\ validated = [n \in Names |-> NoFile]
    /\ returns = [n \in Names |-> NoFile]
    /\ processing_files = {}
    /\ th = [t \in Threads |-> IdleTh]
    /\ phase = "boot"
    /\ scanList = {}
    /\ evt = [p \in AllPaths |-> FALSE]
    /\ created = {}
    /\ events = 0
    /\ crashes = 0
    /\ faults = 0
    /\ overlap = FALSE
    /\ cleanup_count = 0
    /\ rec \in Environments
    /\ out = NoValue
    /\ running = TRUE

\* main.py lines 67-69
run_check_system_requirements ==
    /\ phase = "boot"
    /\ IF check_system_requirements(rec)
       THEN phase' = "dirs" /\ UNCHANGED out
       ELSE phase' = "exited" /\ out' = 1
    /\ UNCHANGED <<data, processing, validated, returns, processing_files, th,
                   scanList, evt, created, events, crashes, faults, overlap,
                   cleanup_count, rec, running>>

\* main.py lines 72-74
run_ensure_directories ==
    /\ phase = "dirs"
    /\ IF ensure_directories(rec)
       THEN phase' = "startup" /\ UNCHANGED out
       ELSE phase' = "exited" /\ out' = 1
    /\ UNCHANGED <<data, processing, validated, returns, processing_files, th,
                   scanList, evt, created, events, crashes, faults, overlap,
                   cleanup_count, rec, running>>

\* main.py lines 22-26: SIGINT, SIGTERM or SIGHUP is delivered; the handlers
\* are registered (lines 58-61) before anything else is done
signal_handler ==
    /\ running
    /\ running' = FALSE
    /\ UNCHANGED <<data, processing, validated, returns, processing_files, th,
                   phase, scanList, evt, created, events, crashes, faults,
                   overlap, cleanup_count, rec, out>>

\* main.py lines 97 and 112-115: the loop test finds running False, the
\* finally clause calls observer.stop()
main_loop_exit ==
    /\ phase = "loop"
    /\ ~running
    /\ phase' = "stopping"
    /\ evt' = [p \in AllPaths |-> FALSE]
    /\ UNCHANGED <<data, processing, validated, returns, processing_files, th,
                   scanList, created, events, crashes, faults, overlap,
                   cleanup_count, rec, out, running>>

\* observer.join(timeout=5) can return with the observer thread still inside
\* on_created: the polling of wait_for_file_access alone can last
\* FILE_ACCESS_MAX_ATTEMPTS * FILE_ACCESS_DELAY seconds
JoinTimesOut ==
    /\ th["watch"].pc = "access"
    /\ FILE_ACCESS_MAX_ATTEMPTS * FILE_ACCESS_DELAY > JOIN_TIMEOUT

\* main.py lines 116-123 and 126-127: observer.join returns, because the
\* observer thread has ended or because the timeout has passed;
\* run_file_processor returns 0 and sys.exit ends the process.  The observer
\* thread is a daemon thread: it ends with the process, wherever it is.
observer_join ==
    /\ phase = "stopping"
    /\ th["watch"].pc = "idle" \/ JoinTimesOut
    /\ phase' = "exited"
    /\ out' = 0
    /\ UNCHANGED <<data, processing, validated, returns, processing_files, th,
                   scanList, evt, created, events, crashes, faults, overlap,
                   cleanup_count, rec, running>>

\* the files dropped during the run: one the schema accepts, one it rejects
RunKinds == {"valid", "invalid"}

\* the steps of the process while it lives
NextRun ==
    \/ run_check_system_requirements
    \/ run_ensure_directories
    \/ phase # "exited" /\ signal_handler
    \/ main_loop_exit
    \/ observer_join
    \/ cleanup_processing_folder
    \/ observer_start
    \/ list_existing
    \/ \E p \in Paths : process_existing_files(p)
    \/ main_loop
    \/ \E p \in Paths : on_created(p)
    \/ \E p \in Paths, k \in RunKinds : phase # "exited" /\ CreateFile(p, k)
    \/ \E t \in Threads : phase # "exited" /\ Track(t)
    \/ \E t \in Threads : phase # "exited" /\ wait_for_file_access(t)
    \/ \E t \in Threads : phase # "exited" /\ safe_file_copy(t)
    \/ \E t \in Threads : phase # "exited" /\ remove_original(t)
    \/ \E t \in Threads : phase # "exited" /\ load_and_validate(t)
    \/ \E t \in Threads : phase # "exited" /\ move_file(t)
    \/ \E t \in Threads : phase # "exited" /\ send_to_third_party(t)
    \/ \E t \in Threads : phase # "exited" /\ send_error_email(t)
    \/ \E t \in Threads : phase # "exited" /\ safe_file_cleanup(t)
    \/ \E t \in Threads : phase # "exited" /\ Release(t)
    \/ \E t \in Threads : phase # "exited" /\ Return(t)

SpecRun == InitRun /\ [][NextRun]_vars

\* ------------------------------------------------- wait_for_file_access
\* wait_for_file_access (file_operations.py lines 13-43) probe by probe.
\* rec holds the arguments, out the locals: the probes made, the two debug
\* messages written, the seconds slept and the value returned.

\* the largest max_attempts and delay passed explicitly
MaxArgument == 3

\* the arguments: 0 stands for an argument left out (None), which the
\* `or` of lines 24-25 replaces by the configured value
AccessCalls == [max_attempts : 0 .. MaxArgument, delay : 0 .. MaxArgument]

\* lines 24-25
AccessAttempts(call) ==
    IF call.max_attempts = 0 THEN FILE_ACCESS_MAX_ATTEMPTS ELSE call.max_attempts
AccessDelay(call) == IF call.delay = 0 THEN FILE_ACCESS_DELAY ELSE call.delay

\* the loop running one time more than max_attempts
AnotherProbe_inclusive(call, locals) == locals.probes <= AccessAttempts(call)

\* line 27: for attempt in range(max_attempts)
AnotherProbe(call, locals) == locals.probes < AccessAttempts(call)

InitAccess ==
    /\ data = [p \in AllPaths |-> "none"]
    /\ processing = [n \in Names |-> NoFile]
    /\ validated = [n \in Names |-> NoFile]
    /\ returns = [n \in Names |-> NoFile]
    /\ processing_files = {}
    /\ th = [t \in Threads |-> IdleTh]
    /\ phase = "call"
    /\ scanList = {}
    /\ evt = [p \in AllPaths |-> FALSE]
    /\ created = {}
    /\ events = 0
    /\ crashes = 0
    /\ faults = 0
    /\ overlap = FALSE
    /\ cleanup_count = 0
    /\ rec \in AccessCalls
    /\ out = [probes |-> 0, absent |-> 0, denied |-> 0, slept |-> 0,
              result |-> "none"]
    /\ running = TRUE

\* lines 28-31: the path does not exist; the probe is logged and slept on
probe_absent ==
    /\ phase = "call"
    /\ AnotherProbe(rec, out)
    /\ out' = [out EXCEPT !.probes = @ + 1, !.absent = @ + 1,
                          !.slept = @ + AccessDelay(rec)]
    /\ UNCHANGED <<data, processing, validated, returns, processing_files, th,
                   phase, scanList, evt, created, events, crashes, faults,
                   overlap, cleanup_count, rec, running>>

\* lines 33-41: the path exists, open or read raises PermissionError or
\* OSError
probe_denied ==
    /\ phase = "call"
    /\ AnotherProbe(rec, out)
    /\ out' = [out EXCEPT !.probes = @ + 1, !.denied = @ + 1,
                          !.slept = @ + AccessDelay(rec)]
    /\ UNCHANGED <<data, processing, validated, returns, processing_files, th,
                   phase, scanList, evt, created, events, crashes, faults,
                   overlap, cleanup_count, rec, running>>

\* lines 33-38: the path exists and one byte is read: return True
probe_readable ==
    /\ phase = "call"
    /\ AnotherProbe(rec, out)
    /\ out' = [out EXCEPT !.probes = @ + 1, !.result = "True"]
    /\ phase' = "returned"
    /\ UNCHANGED <<data, processing, validated, returns, processing_files, th,
                   scanList, evt, created, events, crashes, faults,
                   overlap, cleanup_count, rec, running>>

\* line 43: the loop is exhausted: return False
access_exhausted ==
    /\ phase = "call"
    /\ ~AnotherProbe(rec, out)
    /\ out' = [out EXCEPT !.result = "False"]
    /\ phase' = "returned"
    /\ UNCHANGED <<data, processing, validated, returns, processing_files, th,
                   scanList, evt, created, events, crashes, faults,
                   overlap, cleanup_count, rec, running>>

NextAccess ==
    \/ probe_absent
    \/ probe_denied
    \/ probe_readable
    \/ access_exhausted

SpecAccess == InitAccess /\ [][NextAccess]_vars

\* ------------------------------------------------------------- move_file
\* One call of move_file (file_operations.py lines 45-76) on its own: the
\* invocation of the main thread has staged and validated a.json and is about
\* to route it; the folder it routes to holds files of earlier runs.  rec
\* keeps the two terminal folders as they were when move_file was called.

\* the folder before the call: under each name nothing or a file
FolderBefore == [Names -> {g \in LeftBehind : g = NoFile \/ g.whole}]
EmptyFolder == [n \in Names |-> NoFile]

InitMove ==
    /\ data = [p \in AllPaths |-> "none"]
    /\ processing = [n \in Names |->
                        IF n = 1 THEN [orig |-> "a.json", kind |-> "valid",
                                       whole |-> TRUE]
                        ELSE NoFile]
    /\ \E v \in {"valid", "invalid"}, f \in FolderBefore :
          /\ th = [t \in Threads |->
                     IF t = "main"
                     THEN [IdleTh EXCEPT !.pc = "move", !.path = "a.json",
                                         !.name = 1, !.dname = 1, !.verdict = v]
                     ELSE IdleTh]
          /\ validated = IF v = "valid" THEN f ELSE EmptyFolder
          /\ returns = IF v = "valid" THEN EmptyFolder ELSE f
    /\ rec = [validated |-> validated, returns |-> returns]
    /\ processing_files = {"a.json"}
    /\ phase = "scan"
    /\ scanList = {}
    /\ evt = [p \in AllPaths |-> FALSE]
    /\ created = {"a.json"}
    /\ events = 0
    /\ crashes = 0
    /\ faults = 0
    /\ overlap = FALSE
    /\ cleanup_count = 0
    /\ out = NoValue
    /\ running = TRUE

NextMove == move_file("main")

SpecMove == InitMove /\ [][NextMove]_vars

\* ------------------------------------------------------- retry_decorator
\* The wrapper retry_decorator puts around _transmit_file (third_party.py
\* lines 15-46), call by call.  rec holds the arguments of the decorator, out
\* the calls made, how many of them raised, the sleeps taken and the value
\* returned.

THIRD_PARTY_MAX_RETRIES == 3

\* max_retries 0 stands for the argument left out (None)
RetryArguments == [max_retries : 0 .. MaxArgument, backoff_factor : 1 .. MaxArgument]

\* line 28
Retries(args) ==
    IF args.max_retries = 0 THEN THIRD_PARTY_MAX_RETRIES ELSE args.max_retries

RECURSIVE Power(_, _)
Power(b, e) == IF e = 0 THEN 1 ELSE b * Power(b, e - 1)

\* a sleep that grows by backoff_factor each time instead of multiplying
sleep_time_linear(args, attempt) == args.backoff_factor * (attempt + 1)

\* line 40: backoff_factor ** attempt
sleep_time(args, attempt) == Power(args.backoff_factor, attempt)

InitRetry ==
    /\ data = [p \in AllPaths |-> "none"]
    /\ processing = [n \in Names |-> NoFile]
    /\ validated = [n \in Names |-> NoFile]
    /\ returns = [n \in Names |-> NoFile]
    /\ processing_files = {}
    /\ th = [t \in Threads |-> IdleTh]
    /\ phase = "call"
    /\ scanList = {}
    /\ evt = [p \in AllPaths |-> FALSE]
    /\ created = {}
    /\ events = 0
    /\ crashes = 0
    /\ faults = 0
    /\ overlap = FALSE
    /\ cleanup_count = 0
    /\ rec \in RetryArguments
    /\ out = [calls |-> 0, raised |-> 0, sleeps |-> <<>>, result |-> "none"]
    /\ running = TRUE

\* lines 30-32: func is called and returns v, which the wrapper returns
transmit_returns(v) ==
    /\ phase = "call"
    /\ out.calls < Retries(rec)
    /\ out' = [out EXCEPT !.calls = @ + 1, !.result = v]
    /\ phase' = "returned"
    /\ UNCHANGED <<data, processing, validated, returns, processing_files, th,
                   scanList, evt, created, events, crashes, faults,
                   overlap, cleanup_count, rec, running>>

\* lines 30-43: func is called and raises; the wrapper sleeps and goes on, or
\* returns False when that was the last attempt
transmit_raises ==
    /\ phase = "call"
    /\ out.calls < Retries(rec)
    /\ LET attempt == out.calls
       IN  IF attempt < Retries(rec) - 1
           THEN /\ out' = [out EXCEPT !.calls = @ + 1, !.raised = @ + 1,
                                      !.sleeps = Append(@, sleep_time(rec, attempt))]
                /\ UNCHANGED phase
           ELSE /\ out' = [out EXCEPT !.calls = @ + 1, !.raised = @ + 1,
                                      !.result = "False"]
                /\ phase' = "returned"
    /\ UNCHANGED <<data, processing, validated, returns, processing_files, th,
                   scanList, evt, created, events, crashes, faults,
                   overlap, cleanup_count, rec, running>>

\* what the wrapped function can return
TransmitResults == {"True", "False", "None"}

NextRetry ==
    \/ \E v \in TransmitResults : transmit_returns(v)
    \/ transmit_raises

SpecRetry == InitRetry /\ [][NextRetry]_vars

\* ------------------------------------------------- one invocation, loops
\* One invocation of process_file with the loops of its callees taken turn by
\* turn: every probe of wait_for_file_access and every call the retry
\* wrapper makes is a step.  th[t].attempt is the index of the turn.  The main
\* thread finds a.json in the scan and processes it; the file may be held
\* by its writer for as long as the polling lasts, and the transmission may
\* raise every time.

\* the loop of wait_for_file_access starting over when its attempts are used
\* up
probe_file_access_unbounded(t) ==
    /\ th[t].pc = "access"
    /\ \/ /\ data[th[t].path] # "none"
          /\ th' = [th EXCEPT ![t].pc = "copy", ![t].attempt = 0]
       \/ th' = [th EXCEPT ![t].attempt =
                    IF @ + 1 = FILE_ACCESS_MAX_ATTEMPTS THEN 0 ELSE @ + 1]
    /\ UNCHANGED <<data, processing, validated, returns, processing_files,
                   outer, faults>>

\* wait_for_file_access, file_operations.py lines 27-43: one probe.  It reads
\* a byte and the function returns True, or it fails (the path is absent, or
\* open raises) and the loop goes on; after the last failed probe the
\* function returns False and process_file returns at line 137.
probe_file_access(t) ==
    /\ th[t].pc = "access"
    /\ \/ /\ data[th[t].path] # "none"
          /\ th' = [th EXCEPT ![t].pc = "copy", ![t].attempt = 0]
       \/ th' = IF th[t].attempt + 1 = FILE_ACCESS_MAX_ATTEMPTS
                THEN [th EXCEPT ![t].pc = Unwind("with"), ![t].attempt = 0,
                                ![t].ret = "False", ![t].exit = "access"]
                ELSE [th EXCEPT ![t].attempt = @ + 1]
    /\ UNCHANGED <<data, processing, validated, returns, processing_files,
                   outer, faults>>

\* third_party.py lines 30-43 under send_to_third_party (lines 82-100): one
\* call of _transmit_file by the retry wrapper.  It returns True, or raises:
\* the wrapper sleeps and calls again, or returns False after the last
\* attempt.
transmit_file(t) ==
    /\ th[t].pc = "forward"
    /\ \/ th' = [th EXCEPT ![t].pc = Unwind("try"), ![t].attempt = 0,
                           ![t].forwards = @ + 1, ![t].sent = th[t].name,
                           ![t].order = Append(@, "forward"),
                           ![t].ret = "True", ![t].exit = "ok"]
       \/ th' = IF th[t].attempt + 1 = THIRD_PARTY_MAX_RETRIES
                THEN [th EXCEPT ![t].pc = Unwind("try"), ![t].attempt = 0,
                                ![t].forwards = @ + 1, ![t].sent = th[t].name,
                                ![t].order = Append(@, "forward"),
                                ![t].ret = "False", ![t].exit = "fwdfail"]
                ELSE [th EXCEPT ![t].attempt = @ + 1]
    /\ UNCHANGED <<data, processing, validated, returns, processing_files,
                   outer, faults>>

InitInvocation ==
    /\ \E k \in Kinds : data = [p \in AllPaths |-> IF p = "a.json" THEN k ELSE "none"]
    /\ processing = [n \in Names |-> NoFile]
    /\ validated = [n \in Names |-> NoFile]
    /\ returns = [n \in Names |-> NoFile]
    /\ processing_files = {}
    /\ th = [t \in Threads |-> IdleTh]
    /\ phase = "scan"
    /\ scanList = {"a.json"}
    /\ evt = [p \in AllPaths |-> FALSE]
    /\ created = {"a.json"}
    /\ events = 0
    /\ crashes = 0
    /\ faults = 0
    /\ overlap = FALSE
    /\ cleanup_count = 0
    /\ rec = NoValue
    /\ out = NoValue
    /\ running = TRUE

NextInvocation ==
    \/ process_existing_files("a.json")
    \/ Track("main")
    \/ probe_file_access("main")
    \/ safe_file_copy("main")
    \/ remove_original("main")
    \/ load_and_validate("main")
    \/ move_file("main")
    \/ transmit_file("main")
    \/ send_error_email("main")
    \/ safe_file_cleanup("main")
    \/ Release("main")
    \/ Return("main")

\* every call into the operating system or a collaborator returns or raises,
\* and the thread goes on: a step that can be taken is taken
SpecInvocation == InitInvocation /\ [][NextInvocation]_vars /\ WF_vars(NextInvocation)

\* ================================================================ claims
\* names under which the terminal folders hold a copy of the original at p
InValidated(p) == {n \in Names : validated[n].orig = p}
InReturns(p) == {n \in Names : returns[n].orig = p}
TerminalCount(p) == Cardinality(InValidated(p)) + Cardinality(InReturns(p))

\* whole copies of the original at p outside the watched folder
WholeCopies(p) ==
    {n \in Names : processing[n].orig = p /\ processing[n].whole}
    \cup {n \in Names : validated[n].orig = p /\ validated[n].whole}
    \cup {n \in Names : returns[n].orig = p /\ returns[n].whole}

\* the invocation of thread t is between the tracker's add and the end of
\* safe_file_cleanup
Staging(t) ==
    th[t].pc \in {"access", "copy", "remove", "load", "move", "forward",
                  "email", "cleanup"}

\* process_file has returned on a terminal path: the file was routed
Terminal(t) == th[t].pc = "ret" /\ th[t].exit \in {"ok", "fwdfail", "rejected"}

\* C1: when process_file(p) is called again before the first call has finished
\* its cleanup, the second call returns False without staging anything and
\* exactly one file for p ends up in validated and returns taken together.
\* Stated for the behaviours without a crash and without a failing call, where
\* a second file for p can only come from the second call.
C1_SecondCallDropped ==
    /\ \A t \in Threads : th[t].exit = "dup" =>
          th[t].ret = "False" /\ th[t].name = 0
    /\ \A p \in Paths : (crashes = 0 /\ faults = 0) => TerminalCount(p) <= 1

\* whole copies of the original at p in one terminal folder
WholeIn(folder, p) == {n \in Names : folder[n].orig = p /\ folder[n].whole}

\* C2: within one running instance, whatever created events arrive and
\* whatever the I/O steps do, the file is never in both validated and returns
\* and never twice in one of them.  Stated for whole copies and for the
\* behaviours in which no two invocations for the path ran at the same time.
C2_PlacedAtMostOnce ==
    \A p \in Paths : (crashes = 0 /\ ~overlap) =>
        /\ Cardinality(WholeIn(validated, p)) <= 1
        /\ Cardinality(WholeIn(returns, p)) <= 1
        /\ WholeIn(validated, p) = {} \/ WholeIn(returns, p) = {}

\* C3: no data loss: once the original is gone from the watched folder, a
\* whole copy of it is in the processing folder or in a terminal folder, also
\* when every routing attempt failed.
C3_NoDataLoss ==
    \A p \in created : data[p] = "none" => WholeCopies(p) # {}

\* C4: across a crash and restart the file ends up in exactly one terminal
\* folder exactly once.  Stated for the behaviours in which only the startup
\* scan calls process_file and no call fails: after a restart the file, once
\* gone from the watched folder, is in the terminal folders at most once, and
\* exactly once when the restarted instance has come to rest.
C4_ExactlyOnceAcrossRestart ==
    \A p \in created :
        (crashes > 0 /\ events = 0 /\ faults = 0 /\ data[p] = "none") =>
            /\ TerminalCount(p) <= 1
            /\ (phase = "loop" /\ th["main"].pc = "idle") => TerminalCount(p) = 1

\* C5: the gate: a file is in the validated folder only if its content parsed
\* as JSON and passed the schema; malformed, schema-invalid and raising
\* content is never there, and a thread routes to validated only on the
\* verdict "valid" of content of that class.
C5_Gate ==
    /\ \A n \in Names : validated[n] # NoFile => validated[n].kind = "valid"
    /\ \A t \in Threads :
          (th[t].pc \in {"move", "forward"} /\ ToValidated(t)) =>
              /\ processing[th[t].name].kind = "valid"
              /\ load_json_file(processing[th[t].name].kind) = "data"

\* C5 witness: a file has passed the gate into the validated folder
C5_Witness ==
    \E n \in Names : validated[n] # NoFile /\ validated[n].whole

\* C6: at most one processing attempt is active for a path: no two
\* invocations for the same path are both past the in-flight check and before
\* the release.
C6_OneActivePerPath ==
    \A t, u \in Threads :
        (t # u /\ Active(t) /\ Active(u)) => th[t].path # th[u].path

\* C7: when process_file(p) returns by any exit other than the duplicate
\* drop, p is not in processing_files and no staged copy remains in the
\* processing folder.  Stated for the behaviours in which only the startup
\* scan calls process_file.
C7_ReturnLeavesNothing ==
    \A t \in Threads :
        (events = 0 /\ th[t].pc = "ret" /\ th[t].exit # "dup") =>
            /\ th[t].path \notin processing_files
            /\ processing[th[t].name] = NoFile

\* C8: from the tracker's add until the staged copy has been cleaned up, the
\* path is a member of processing_files.
C8_TrackedUntilCleanup ==
    \A t \in Threads : Staging(t) => th[t].path \in processing_files

\* the effects of a terminal path in the order the claim gives them
ClaimedOrder(t) ==
    <<"route", IF th[t].exit = "rejected" THEN "notify" ELSE "forward",
      "release", "cleanup">>

\* the effects of a terminal path in the order of the code
CodeOrder(t) ==
    <<"route", IF th[t].exit = "rejected" THEN "notify" ELSE "forward",
      "cleanup", "release">>

\* C9 as claimed: on both terminal paths the effects occur in the order route,
\* forward or notify, release of the tracker entry, deletion of the staged copy.
C9_ReleaseBeforeDelete ==
    \A t \in Threads : Terminal(t) => th[t].order = ClaimedOrder(t)

\* C9 as amended: on both terminal paths the effects occur in the order route,
\* forward or notify, deletion of the staged copy, release of the tracker
\* entry; and the invocation's staged copy is never deleted after its release.
C9_DeleteBeforeRelease ==
    \A t \in Threads :
        /\ Terminal(t) => th[t].order = CodeOrder(t)
        /\ th[t].pc = "cleanup" =>
              \A i \in 1 .. Len(th[t].order) : th[t].order[i] # "release"

\* C9 witness: a call has returned on the success path and left no staged copy
C9_Witness ==
    \E t \in Threads :
        /\ Terminal(t)
        /\ th[t].exit = "ok"
        /\ processing[th[t].name] = NoFile

\* C10: a call of process_file for a path that is already tracked returns
\* False and changes nothing: processing_files and the folders are unchanged,
\* no name is staged and neither collaborator is called.
C10_DuplicateIsNoOp ==
    [][\A t \in Threads : \A p \in Paths :
          (th[t].pc = "idle" /\ th'[t].pc # "idle" /\ th'[t].path = p
           /\ p \in processing_files) =>
              /\ th'[t].pc = "ret"
              /\ th'[t].ret = "False"
              /\ th'[t].name = 0
              /\ th'[t].emails = 0
              /\ th'[t].forwards = 0
              /\ UNCHANGED <<processing_files, data, processing, validated,
                             returns>>]_vars

\* C10 witness: a call was dropped while the other thread holds the path
C10_Witness ==
    \E t, u \in Threads :
        /\ th[t].pc = "ret"
        /\ th[t].exit = "dup"
        /\ Active(u)
        /\ th[u].path = th[t].path
        /\ th[t].path \in processing_files

\* process_file has returned because the file could not be read (line 137) or
\* could not be copied into the processing folder (line 141)
Aborted(t) == th[t].pc = "ret" /\ th[t].exit \in {"access", "copy"}

\* C11: when the access wait or the copy into the processing folder fails,
\* process_file aborts: the original is still in the watched folder, nothing
\* is staged under the invocation's name, no file for the path is in
\* validated or returns, the tracker entry is released and send_error_email
\* was not called.  Stated for the behaviours in which the startup scan makes
\* the only call for the path.
C11_AbortLeavesNothing ==
    \A t \in Threads :
        (events = 0 /\ crashes = 0 /\ Aborted(t)) =>
            /\ data[th[t].path] # "none"
            /\ processing[th[t].name] = NoFile
            /\ TerminalCount(th[t].path) = 0
            /\ th[t].path \notin processing_files
            /\ th[t].emails = 0
            /\ th[t].ret = "False"

\* C12: when the copy into the processing folder succeeded, the deletion of
\* the original decides nothing: whether os.remove succeeds or fails, the
\* invocation goes on to read the staged copy with the same locals and the
\* same staged file; only the watched folder differs, where a failed deletion
\* leaves the original in place.
C12_RemoveFailureContinues ==
    [][\A t \in Threads :
          (th[t].pc = "remove" /\ th'[t].pc # "remove" /\ crashes' = crashes) =>
              /\ th'[t] = [th[t] EXCEPT !.pc = "load"]
              /\ processing'[th[t].name] = processing[th[t].name]
              /\ processing[th[t].name].whole
              /\ data'[th[t].path] \in {"none", data[th[t].path]}]_vars

\* C12 witness: the only call for the path has routed a whole copy to a
\* terminal folder and returned, and the original is still in the watched
\* folder because its deletion failed
C12_Witness ==
    \E t \in Threads :
        /\ events = 0
        /\ crashes = 0
        /\ Terminal(t)
        /\ data[th[t].path] # "none"
        /\ \/ validated[th[t].dname].whole /\ validated[th[t].dname].orig = th[t].path
           \/ returns[th[t].dname].whole /\ returns[th[t].dname].orig = th[t].path

\* calls of safe_file_cleanup the invocation of thread t has made
CleanupCalls(t) ==
    Cardinality({i \in 1 .. Len(th[t].order) : th[t].order[i] = "cleanup"})

\* safe_file_copy of the returned invocation wrote at its processing path:
\* the copy succeeded (every exit from inside the try), or it failed and left
\* a file under the invocation's own name
WroteStaged(t) ==
    \/ th[t].exit \in {"ok", "fwdfail", "rejected", "routefail"}
    \/ th[t].exit = "copy" /\ processing[th[t].name] # NoFile

\* C13: every creation of a staged copy is matched by exactly one call of
\* safe_file_cleanup for it on every exit of process_file, the exit after a
\* copy that failed part-way included: when the call has returned, the
\* invocation that wrote at its processing path has called safe_file_cleanup
\* once, and no invocation calls it twice.
C13_OneCleanupPerStagedCopy ==
    \A t \in Threads :
        /\ CleanupCalls(t) <= 1
        /\ (th[t].pc = "ret" /\ WroteStaged(t)) => CleanupCalls(t) = 1

\* C14: move_file never writes at a destination name that holds a file: on
\* every attempt of every route call, each file that is in the validated or
\* the returns folder before the attempt is there, unchanged, after it; when
\* the desired name is taken the copy goes to another name.
C14_NoOverwrite ==
    [][\A t \in Threads :
          (th[t].pc = "move" /\ th'[t] # th[t] /\ crashes' = crashes) =>
              \A n \in Names :
                  /\ validated[n] # NoFile => validated'[n] = validated[n]
                  /\ returns[n] # NoFile => returns'[n] = returns[n]]_vars

\* C14 witness: the desired name was taken (an earlier attempt left a partial
\* file there) and the file was stored whole under an alternative name, the
\* earlier file still being there
C14_Witness ==
    \E t \in Threads :
        /\ th[t].pc \in {"forward", "email"}
        /\ th[t].dname # th[t].name
        /\ LET dest == IF ToValidated(t) THEN validated ELSE returns
           IN  /\ dest[th[t].name] # NoFile
               /\ ~dest[th[t].name].whole
               /\ dest[th[t].dname].whole

\* C15: a file that was staged and whose content is not JSON ends in the
\* returns folder with the content of the original, is not in validated, and
\* caused exactly one call of send_error_email and no call of
\* send_to_third_party.  Stated at the return of the only call for the path.
C15_MalformedToReturns ==
    \A t \in Threads :
        (events = 0 /\ crashes = 0 /\ th[t].pc = "ret"
         /\ th[t].verdict = "malformed") =>
            /\ \E n \in WholeIn(returns, th[t].path) : returns[n].kind = "malformed"
            /\ InValidated(th[t].path) = {}
            /\ th[t].emails = 1
            /\ th[t].forwards = 0

\* process_file has returned on a failure terminal: the content was rejected
\* (malformed, schema-invalid, unreadable, raising) or the routing of accepted
\* content failed
FailureTerminal(t) ==
    th[t].pc = "ret" /\ th[t].exit \in {"rejected", "routefail"}

\* C16: send_error_email is invoked exactly once for every file whose
\* processing ends on a failure terminal, an I/O error while routing
\* included, and never for a file that was routed to the validated folder.
C16_EmailOncePerFailure ==
    \A t \in Threads :
        /\ FailureTerminal(t) => th[t].emails = 1
        /\ (th[t].pc = "ret" /\ th[t].exit \in {"ok", "fwdfail"}) => th[t].emails = 0

\* C17: on every success terminal send_to_third_party was invoked exactly
\* once, and the name it was given is the name under which move_file stored
\* the file in the validated folder, also when that is an alternative name.
C17_ForwardsStoredPath ==
    \A t \in Threads :
        (th[t].pc = "ret" /\ th[t].exit \in {"ok", "fwdfail"}) =>
            /\ th[t].forwards = 1
            /\ th[t].sent = th[t].dname
            /\ validated[th[t].sent].whole

\* C18: when forwarding has failed after all its retries, the file stays in
\* the validated folder and is not put into returns, send_error_email is not
\* called and process_file returns False.  Stated from the failed forwarding
\* call to the return of the only call for the path.
C18_ForwardFailureKeepsValidated ==
    \A t \in Threads :
        (events = 0 /\ crashes = 0 /\ th[t].exit = "fwdfail") =>
            /\ th[t].ret = "False"
            /\ th[t].emails = 0
            /\ validated[th[t].dname].whole
            /\ validated[th[t].dname].orig = th[t].path
            /\ InReturns(th[t].path) = {}

\* C18 witness: the call has returned after a forwarding failure
C18_Witness ==
    \E t \in Threads :
        /\ events = 0
        /\ crashes = 0
        /\ th[t].pc = "ret"
        /\ th[t].exit = "fwdfail"
        /\ th[t].forwards = 1

\* C19: no exception raised while one file is handled leaves process_file or
\* on_created: every call returns a boolean, and the program goes on to
\* process later events (the main thread does not leave run_file_processor).
C19_NoExceptionEscapes ==
    /\ \A t \in Threads : th[t].pc = "ret" => th[t].ret \in {"True", "False"}
    /\ phase # "exited"

\* C20: an exception raised while a staged file is parsed or validated
\* (content that is JSON but not an object) is a failure outcome: the file is
\* routed to returns, send_error_email is called exactly once, and the file is
\* not placed in validated.  Stated at the return of the only call for the
\* path.
C20_ExceptionToReturns ==
    \A t \in Threads :
        (events = 0 /\ crashes = 0 /\ th[t].pc = "ret"
         /\ th[t].verdict = "exception") =>
            /\ \E n \in WholeIn(returns, th[t].path) : returns[n].kind = "nonobject"
            /\ InValidated(th[t].path) = {}
            /\ th[t].emails = 1
            /\ th[t].forwards = 0
            /\ th[t].ret = "False"

\* names that hold a file in the processing folder
Staged == {n \in Names : processing[n] # NoFile}

\* the step is the startup recovery of run_file_processor (main.py line 77)
RecoveryStep == phase = "startup" /\ phase' = "observe"

\* C21 as claimed: at startup every file of the processing folder is moved to
\* returns, none remaining, before the watch source is started and before any
\* file is processed, and the number reported is the number of files that
\* were there.
C21_AllMovedBeforeWatch ==
    [][RecoveryStep =>
          /\ Staged' = {}
          /\ cleanup_count' = Cardinality(Staged)
          /\ ~ObserverRunning'
          /\ \A t \in Threads : th[t].pc = "idle"]_vars

\* C21 as amended: at startup, before the watch source is started and before
\* any file is processed, each file of the processing folder is either moved
\* to returns under its own name or, when its move raises, left where it is
\* with returns untouched at that name; the number reported is the number of
\* files moved, which is the number found when no move failed.
C21_MovedOrLeftBeforeWatch ==
    [][RecoveryStep =>
          /\ \A n \in Staged :
                \/ processing'[n] = NoFile /\ returns'[n] = processing[n]
                \/ processing'[n] = processing[n] /\ returns'[n] = returns[n]
          /\ cleanup_count' = Cardinality(Staged \ Staged')
          /\ faults' = faults => (Staged' = {} /\ cleanup_count' = Cardinality(Staged))
          /\ validated' = validated
          /\ ~ObserverRunning'
          /\ \A t \in Threads : th[t].pc = "idle"]_vars

\* C21 witness: the recovery has run on a folder with two files, moved one and
\* left the other, and reported one
C21_Witness ==
    /\ phase = "observe"
    /\ cleanup_count = 1
    /\ Cardinality(Staged) = 1

GoodOperatorID(v) ==
    v.t = "text" /\ v.len >= OPERATOR_ID_MIN_LENGTH /\ v.chars = "ascii"
GoodCustomerID(v) == v.t = "text" /\ v.len >= CUSTOMER_ID_MIN_LENGTH
GoodCardNumber(v) == v.t = "text" /\ v.len = CARD_NUMBER_LENGTH
\* an optional free-form mapping that is absent, null or a mapping
GoodFreeForm(v) == v.t \in {"absent", "null", "map"}

\* the flat records of C23: the three fields good and no Customer mapping
FlatAsClaimed(r) ==
    /\ GoodOperatorID(r.OperatorID)
    /\ GoodCustomerID(r.CustomerID)
    /\ GoodCardNumber(r.CustomerCardNumber)
    /\ r.Customer.t # "map"

NestedAsClaimed(r) ==
    /\ GoodOperatorID(r.OperatorID)
    /\ r.Customer.t = "map"
    /\ GoodCustomerID(r.Customer.CustomerID)
    /\ GoodCardNumber(r.Customer.CustomerCardNumber)
    /\ GoodFreeForm(r.Customer.CustomerDetails)
    /\ GoodFreeForm(r.Metadata)
    /\ ~has_direct_fields(r)

\* C24: every valid nested record, the flat shape being absent (at most one of
\* the two top-level customer fields is there), validates with structure type
\* nested: only the customer fields of the chosen branch are constrained.
C24_NestedAccepted ==
    (phase = "returned" /\ NestedAsClaimed(rec)) =>
        (out.ok /\ out.structure_type = "nested")

ChosenCustomerID(r) == IF has_nested(r) THEN r.Customer.CustomerID ELSE r.CustomerID
ChosenCardNumber(r) ==
    IF has_nested(r) THEN r.Customer.CustomerCardNumber ELSE r.CustomerCardNumber

\* a field constraint of the chosen shape is violated
ViolatesFieldConstraint(r) ==
    \/ r.OperatorID.t = "absent"
    \/ r.OperatorID.t = "text" /\ r.OperatorID.chars = "other"
    \/ r.OperatorID.t = "text" /\ r.OperatorID.len < OPERATOR_ID_MIN_LENGTH
    \/ /\ ChosenCustomerID(r).t = "text"
       /\ ChosenCustomerID(r).len < CUSTOMER_ID_MIN_LENGTH
    \/ /\ ChosenCardNumber(r).t = "text"
       /\ ChosenCardNumber(r).len # CARD_NUMBER_LENGTH

\* C26: validation rejects every record that violates a field constraint of
\* the chosen shape: OperatorID missing, with a non-alphanumeric character or
\* shorter than 5; CustomerID shorter than 7; CustomerCardNumber of a length
\* other than 16
C26_ViolationsRejected ==
    (phase = "returned" /\ ViolatesFieldConstraint(rec)) => ~out.ok

\* C26 witness: a flat record whose only defect is a card number of 17
\* characters has been rejected for that field
C26_Witness ==
    /\ phase = "returned"
    /\ check_structure(rec) = "flat"
    /\ GoodOperatorID(rec.OperatorID)
    /\ GoodCustomerID(rec.CustomerID)
    /\ rec.CustomerCardNumber.t = "text"
    /\ rec.CustomerCardNumber.len = CARD_NUMBER_LENGTH + 1
    /\ GoodFreeForm(rec.Metadata)
    /\ ~out.ok
    /\ out.errors = {Err("CustomerCardNumber", "string_too_long", "CustomerCardNumber")}

\* the strings stored under the card-number key anywhere in a, each with the
\* value at the same place of b
RECURSIVE CardPairs(_, _)
CardPairs(a, b) ==
    CASE a.k = "list" ->
           UNION {CardPairs(a.items[i], b.items[i]) : i \in DOMAIN a.items}
      [] a.k = "dict" ->
           UNION {IF a.items[i].key = CARD_KEY /\ a.items[i].val.k = "str"
                  THEN {<<a.items[i].val, b.items[i].val>>}
                  ELSE CardPairs(a.items[i].val, b.items[i].val) :
                    i \in DOMAIN a.items}
      [] OTHER -> {}

\* C27: every string of length n >= 8 under the key CustomerCardNumber, at
\* any depth of mappings and sequences, is replaced by n-4 asterisks followed
\* by its last 4 characters
C27_LongCardsMasked ==
    phase = "returned" =>
        \A p \in CardPairs(rec, out) :
            Len(p[1].s) >= MASK_MIN_LENGTH =>
                /\ p[2].k = "str"
                /\ Len(p[2].s) = Len(p[1].s)
                /\ \A i \in 1 .. Len(p[1].s) :
                       p[2].s[i] = IF i <= Len(p[1].s) - MASK_REVEALED
                                   THEN "*" ELSE p[1].s[i]

\* C27 witness: a 16-character card number in a mapping inside a sequence
\* has come back as 12 asterisks and its last 4 characters
C27_Witness ==
    /\ phase = "returned"
    /\ rec.k = "list"
    /\ \E i \in DOMAIN rec.items :
          /\ rec.items[i].k = "dict"
          /\ \E j \in DOMAIN rec.items[i].items :
                /\ rec.items[i].items[j] =
                       [key |-> CARD_KEY, val |-> Str(Digits(CARD_NUMBER_LENGTH))]
                /\ out.items[i].items[j].val.s =
                       <<"*", "*", "*", "*", "*", "*", "*", "*", "*", "*", "*", "*",
                         "5", "6", "7", "8">>

\* C28: every string shorter than 8 characters under the key
\* CustomerCardNumber is replaced by the placeholder '****'
C28_ShortCardsMasked ==
    phase = "returned" =>
        \A p \in CardPairs(rec, out) :
            Len(p[1].s) < MASK_MIN_LENGTH => p[2] = Str(<<"*", "*", "*", "*">>)

\* d with every string under the card-number key blanked
RECURSIVE WithoutCards(_)
WithoutCards(d) ==
    CASE d.k = "list" -> List([i \in DOMAIN d.items |-> WithoutCards(d.items[i])])
      [] d.k = "dict" ->
           Dict([i \in DOMAIN d.items |->
                   [key |-> d.items[i].key,
                    val |-> IF d.items[i].key = CARD_KEY /\ d.items[i].val.k = "str"
                            THEN Null ELSE WithoutCards(d.items[i].val)]])
      [] OTHER -> d

\* C29: the call leaves its argument as it was, and the result has the keys,
\* the order and every value of the argument except the strings under the
\* key CustomerCardNumber
C29_Pure ==
    [][phase = "call" =>
          /\ rec' = rec
          /\ WithoutCards(out') = WithoutCards(rec)]_vars

\* C29 witness: a mapping with a card number and, under another key, a
\* sequence holding a 16-character string: the card number came back masked,
\* the other entry as it was
C29_Witness ==
    /\ phase = "returned"
    /\ rec.k = "dict"
    /\ \E i, j \in DOMAIN rec.items :
          /\ rec.items[i] = [key |-> CARD_KEY, val |-> Str(Digits(CARD_NUMBER_LENGTH))]
          /\ rec.items[j].key = "Metadata"
          /\ rec.items[j].val.k = "list"
          /\ \E m \in DOMAIN rec.items[j].val.items :
                rec.items[j].val.items[m] = Str(Digits(CARD_NUMBER_LENGTH))
          /\ out.items[j] = rec.items[j]
          /\ out.items[i] # rec.items[i]

\* the part of record r shown holds a card number of r in full
ShowsCardNumber(r, part) ==
    CASE part = "record" ->
           \/ r.CustomerCardNumber.t = "text"
           \/ r.Customer.t = "map" /\ r.Customer.CustomerCardNumber.t = "text"
      [] part = "Customer" ->
           r.Customer.t = "map" /\ r.Customer.CustomerCardNumber.t = "text"
      [] part = "CustomerCardNumber" -> r.CustomerCardNumber.t = "text"
      [] part = "Customer.CustomerCardNumber" ->
           r.Customer.t = "map" /\ r.Customer.CustomerCardNumber.t = "text"
      [] OTHER -> FALSE

\* C30: the message logged and mailed for a record that fails the schema
\* carries neither the card number of the record nor the record itself
C30_NoCardNumberInMessages ==
    (phase = "returned" /\ ~out.ok) =>
        \A part \in error_msg(out) : ~ShowsCardNumber(rec, part)

\* the invocation of thread t has begun and has not returned
InFlight(t) == th[t].pc \notin {"idle", "ret"}

\* C31: when the main loop has ended on the shutdown flag and
\* run_file_processor has returned 0, an invocation of process_file that was
\* in progress has run to its end: none is cut off by the exit
C31_InFlightCompletes ==
    (phase = "exited" /\ out = 0) => \A t \in Threads : ~InFlight(t)

\* the environment the process was started in lacks something: disk space, a
\* required folder that can be made and accessed, or EMAIL_PASSWORD
StartupFails(env) == ~env.free_space \/ env.folders # "ok" \/ ~env.password

\* C32: when the requirements check or the directory creation fails,
\* run_file_processor returns non-zero and has not run the recovery, started
\* the watch source or processed a file; a run ended by the shutdown flag
\* returns 0
C32_StartupFailureExits ==
    [][/\ StartupFails(rec) =>
             /\ phase' \in {"boot", "dirs", "exited"}
             /\ phase' = "exited" => out' # 0
             /\ UNCHANGED <<processing, validated, returns, processing_files,
                            th, cleanup_count>>
       /\ (phase = "stopping" /\ phase' = "exited") => out' = 0]_vars

\* C32 witness: the process has exited with code 1 because a folder could not
\* be made, and the file a previous run left in the processing folder is
\* still there
C32_Witness ==
    /\ phase = "exited"
    /\ out = 1
    /\ rec = [free_space |-> TRUE, folders |-> "not_creatable", password |-> TRUE]
    /\ processing[1] # NoFile
    /\ returns[1] = NoFile

\* C33: wait_for_file_access probes the path at most max_attempts times,
\* returns True at the first probe that finds the path present and readable,
\* with no probe or sleep after it, and returns False only after exactly
\* max_attempts failed probes
C33_ProbesBounded ==
    LET failed == out.absent + out.denied
    IN  /\ out.probes <= AccessAttempts(rec)
        /\ out.slept = failed * AccessDelay(rec)
        /\ out.result = "True" => out.probes = failed + 1
        /\ out.result = "False" =>
              (out.probes = AccessAttempts(rec) /\ failed = AccessAttempts(rec))
        /\ (phase = "returned") = (out.result # "none")

\* C33 witness: called with max_attempts 3, the function has returned True at
\* its third probe after one probe found no file and one could not read it
C33_Witness ==
    /\ phase = "returned"
    /\ rec.max_attempts = 3
    /\ out.result = "True"
    /\ out.probes = 3
    /\ out.absent = 1
    /\ out.denied = 1

\* the step is an attempt of move_file that copied the whole staged file
CopySucceeds == th["main"].pc = "move" /\ faults' = faults /\ th' # th

\* C34: move_file makes at most max_attempts attempts, each of which looks
\* again whether the destination name is taken and then writes to a name that
\* is free; it returns True at the first attempt that succeeds and False only
\* after max_attempts failed ones, and it leaves the staged source as it was
C34_MoveAttempts ==
    [][th["main"].pc = "move" =>
          /\ th["main"].attempt < FILE_MOVE_MAX_ATTEMPTS
          /\ processing' = processing
          /\ \A n \in Names :
                /\ validated[n] # NoFile => validated'[n] = validated[n]
                /\ returns[n] # NoFile => returns'[n] = returns[n]
          /\ CopySucceeds => th'["main"].pc \in {"forward", "email"}
          /\ th'["main"].pc = "move" =>
                (~CopySucceeds /\ th'["main"].attempt = th["main"].attempt + 1)
          /\ th'["main"].exit = "routefail" =>
                (~CopySucceeds
                 /\ th["main"].attempt + 1 = FILE_MOVE_MAX_ATTEMPTS)]_vars

\* C34 witness: move_file has returned False after its third failed attempt
\* and the staged file is still in the processing folder
C34_Witness ==
    /\ th["main"].exit = "routefail"
    /\ faults = FILE_MOVE_MAX_ATTEMPTS
    /\ processing[1] = [orig |-> "a.json", kind |-> "valid", whole |-> TRUE]

\* the names under which the terminal folders hold a file that was not there
\* when move_file was called
AddedByMove ==
    {n \in Names : validated[n] # rec.validated[n]}
    \cup {n \in Names : returns[n] # rec.returns[n]}

\* C39: after move_file has returned the destination folder holds at most
\* one file that was not there before the call, and none if it returned False
C39_NoStrayCopies ==
    th["main"].pc # "move" =>
        /\ Cardinality(AddedByMove) <= 1
        /\ th["main"].exit = "routefail" => AddedByMove = {}

\* b to the power e, by repeated multiplication from the top
RECURSIVE Exponential(_, _)
Exponential(b, e) == IF e = 0 THEN 1 ELSE Exponential(b, e - 1) * b

\* C35: the wrapper calls the transmit function at most `retries` times; it
\* returns the result of the first call that does not raise and calls no
\* more; after failed attempt k that is not the last it waits
\* backoff_factor**k; after the last failed attempt it returns False without
\* waiting
C35_RetryBackoff ==
    /\ out.calls <= Retries(rec)
    /\ out.raised <= out.calls
    /\ \A k \in 1 .. Len(out.sleeps) :
          out.sleeps[k] = Exponential(rec.backoff_factor, k - 1)
    /\ phase = "call" =>
          (out.raised = out.calls /\ Len(out.sleeps) = out.calls)
    /\ phase = "returned" =>
          /\ Len(out.sleeps) = out.calls - 1
          /\ out.raised \in {out.calls - 1, out.calls}
          /\ out.raised = out.calls =>
                (out.calls = Retries(rec) /\ out.result = "False")
          /\ out.raised < out.calls => out.result \in TransmitResults

\* C35 witness: with the defaults (3 attempts, factor 2) every call raised:
\* the wrapper waited 1, then 2, and returned False after the third call
C35_Witness ==
    /\ phase = "returned"
    /\ rec = [max_retries |-> 0, backoff_factor |-> 2]
    /\ out = [calls |-> THIRD_PARTY_MAX_RETRIES, raised |-> THIRD_PARTY_MAX_RETRIES,
              sleeps |-> <<1, 2>>, result |-> "False"]

\* how many times the invocation of thread t has called move_file
RoutingCalls(t) ==
    Cardinality({i \in DOMAIN th[t].order : th[t].order[i] = "route"})
    + (IF th[t].pc = "move" THEN 1 ELSE 0)

\* C36: every invocation of process_file returns after a bounded number of
\* steps: at most FILE_ACCESS_MAX_ATTEMPTS probes, a bounded number of
\* routing calls of at most FILE_MOVE_MAX_ATTEMPTS attempts each, at most
\* THIRD_PARTY_MAX_RETRIES transmissions
C36_Terminates ==
    /\ [](/\ th["main"].pc = "access" =>
                th["main"].attempt < FILE_ACCESS_MAX_ATTEMPTS
          /\ th["main"].pc = "move" =>
                th["main"].attempt < FILE_MOVE_MAX_ATTEMPTS
          /\ th["main"].pc = "forward" =>
                th["main"].attempt < THIRD_PARTY_MAX_RETRIES
          /\ RoutingCalls("main") <= 1
          /\ th["main"].forwards <= 1)
    /\ <>(scanList = {} /\ th["main"].pc = "idle")

\* C36 witness: the invocation is about to return after its file was stored
\* in the third routing attempt and every transmission raised
C36_Witness ==
    /\ th["main"].pc = "ret"
    /\ th["main"].exit = "fwdfail"
    /\ faults = FILE_MOVE_MAX_ATTEMPTS - 1
    /\ validated[3] = [orig |-> "a.json", kind |-> "valid", whole |-> TRUE]

\* C37: a Customer value that is neither null nor a mapping does not make the
\* record nested: with top-level CustomerID and CustomerCardNumber the record
\* is not an ambiguous-structure case, without them it is a
\* missing-customer-identity case
C37_NonMappingCustomerNotNested ==
    (phase = "returned" /\ rec.Customer.t \notin {"absent", "null", "map"}) =>
        /\ has_direct_fields(rec) =>
              ~\E e \in out.errors : e.type = "ambiguous"
        /\ ~has_direct_fields(rec) =>
              \E e \in out.errors : e.type = "missing_identity"

\* the error list has an entry for the field at loc
Listed(errors, loc) == \E e \in errors : e.loc = loc

\* C38: the error list holds an entry for every violated constraint of a
\* record that violates several: a structural error, an OperatorID that is
\* missing, too short or not alphanumeric, a CustomerID that is too short, a
\* card number of the wrong length
C38_AllViolationsListed ==
    phase = "returned" =>
        /\ check_structure(rec) \in {"missing_identity", "ambiguous"} =>
              \E e \in out.errors : e.type = check_structure(rec)
        /\ (\/ rec.OperatorID.t = "absent"
            \/ rec.OperatorID.t = "text" /\ rec.OperatorID.chars = "other"
            \/ rec.OperatorID.t = "text"
                  /\ rec.OperatorID.len < OPERATOR_ID_MIN_LENGTH) =>
              Listed(out.errors, "OperatorID")
        /\ (rec.CustomerID.t = "text"
               /\ rec.CustomerID.len < CUSTOMER_ID_MIN_LENGTH) =>
              Listed(out.errors, "CustomerID")
        /\ (rec.CustomerCardNumber.t = "text"
               /\ rec.CustomerCardNumber.len # CARD_NUMBER_LENGTH) =>
              Listed(out.errors, "CustomerCardNumber")

\* C40: startup recovery never overwrites or removes a file that is already
\* in the returns folder: every file that was there before
\* cleanup_processing_folder is there afterwards with the same content, also
\* when a file left in the processing folder has the same name
C40_RecoveryKeepsReturns ==
    [][(phase = "startup" /\ phase' = "observe") =>
          \A n \in Names : returns[n] # NoFile => returns'[n] = returns[n]]_vars

====
